---- MODULE Spec2Model ----
(***************************************************************************)
(* Model of the SELFIES VS Code extension: the cursor-driven resolution    *)
(* pipeline (LineTracker, src/src/lineTracker.js lines 216-531) and the    *)
(* diagnostics provider (src/src/diagnostics.js).                          *)
(*                                                                         *)
(* A text of the program (a line, a name, an expression) is modelled as    *)
(* the sequence of its characters, each a one-character string; a file     *)
(* name is the sequence of its dot-separated segments; a message is one    *)
(* string.                                                                 *)
(***************************************************************************)
EXTENDS Integers, Sequences, FiniteSets, TLC

VARIABLES
    text,                 \* content of every document known to the host
    openDocs,             \* vscode.workspace.textDocuments
    mtimeMs,              \* fs.statSync(file).mtimeMs of the smiles-js file (NoFile: statSync throws)
    currentDocument,      \* LineTracker._currentDocument
    currentLine,          \* LineTracker._currentLine
    parseResult,          \* LineTracker._parseResult
    heldText,             \* the text of the TextDocument object in _currentDocument once
                          \* the host has closed that object (Live until then)
    smilesModuleCache,    \* LineTracker._smilesModuleCache (a Map)
    pending,              \* _updateLineInfo runs suspended on the await of line 394, in start order
    nSuperseded,          \* how many of the oldest suspended runs started before the run that published last
    bus,                  \* value last fired on _onDidChangeCurrentLine
    lastRun,              \* what the last step did to a resolution run
    prevLoad,             \* the call of _loadSmilesModule made last
    buildsSinceReset,     \* calls of loadWithImports by _updateLineInfo since _parseResult was last reset
    diagnosticCollection, \* the DiagnosticCollection 'selfies' (uri -> records)
    disposed,             \* which of the tracker and the diagnostics provider have been disposed
    activeTextEditor,     \* vscode.window.activeTextEditor, as extension.js reads it
    config,               \* the settings selfies.autoOpenPreview and selfies.previewOnCursorMove
    engineOutcomes,       \* the outcomes the calls of the engine have in this session
    previewPanel,         \* the variable previewPanel of activate()
    command,              \* the command passed to executeCommand whose handler has not run yet
    updates,              \* calls of PreviewPanel.update suspended on generateSVG, in start order
    posted,               \* the last attempt of PreviewPanel.update to post a message
    webviewPanels         \* how many panels made by createWebviewPanel are not disposed

\* the state of extension.js and of the preview panel, with what is fixed
\* for the session: the settings and the behaviour of the engine
previewVars == <<activeTextEditor, config, engineOutcomes, previewPanel, command,
                 updates, posted, webviewPanels>>

vars == <<text, openDocs, mtimeMs, currentDocument, currentLine, parseResult, heldText,
          smilesModuleCache, pending, nSuperseded, bus, lastRun, prevLoad,
          buildsSinceReset, diagnosticCollection, disposed, activeTextEditor,
          config, engineOutcomes, previewPanel, command, updates, posted,
          webviewPanels>>

----------------------------------------------------------------------------
(* Bounds *)

\* most _updateLineInfo runs suspended on import() at once
MaxPending == 2
\* how many times the smiles-js file is saved (mtimeMs grows by one each time)
MaxMtime == 2
\* most calls of loadWithImports by _updateLineInfo between two resets of
\* _parseResult
MaxBuilds == 2
\* most calls of PreviewPanel.update suspended on generateSVG at once
MaxUpdates == 1

----------------------------------------------------------------------------
(* Documents of the host *)

Docs == {"a", "b", "m", "n"}

\* document.languageId
languageId(d) ==
    CASE d = "a" -> "selfies"
      [] d = "b" -> "selfies"
      [] d = "m" -> "javascript"
      [] OTHER   -> "plaintext"

\* document.fileName, split at the dots
fileName(d) ==
    CASE d = "a" -> <<"a", "selfies">>
      [] d = "b" -> <<"b", "selfies">>
      [] d = "m" -> <<"m", "smiles", "js">>
      [] OTHER   -> <<"n", "txt">>

\* the smiles-js file is not on disk
NoFile == 0

\* null of _currentDocument, and of an absent active editor
NoDoc == "null"
\* null of _currentLine (line numbers are 0-based naturals)
NoLine == -1

\* fileName.endsWith('.smiles.js')
EndsWithSmilesJs(name) ==
    /\ Len(name) >= 3
    /\ name[Len(name) - 1] = "smiles"
    /\ name[Len(name)] = "js"

\* a classification that accepts every document
IsSupportedFile_Any(d) == TRUE

\* this._isSupportedFile
IsSupportedFile(d) ==
    \/ languageId(d) = "selfies"
    \/ EndsWithSmilesJs(fileName(d))

----------------------------------------------------------------------------
(* The encoding engine (selfies-js) is external.  A document content is a  *)
(* pair of the lines and what loadWithImports returns or throws for that   *)
(* text and its imports, so the engine is a function of the content.       *)

\* a token of a definition is a JavaScript value: typeof says which kind
\* ("null" stands for the value null)
DefA == [name |-> <<"A">>, line |-> 1,
         tokens |-> <<[typeof |-> "string", value |-> <<"[", "C", "]">>]>>]

ErrUndefined == [type |-> "undefined", message |-> "Undefined reference",
                 line |-> 2, column |-> 7, endColumn |-> 10]
ErrNoPosition == [severity |-> "hint", message |-> "Unused import"]
WarnValence == [message |-> "Valence", line |-> 2, column |-> 1]

\* the lines of the documents, untrimmed
LineA == <<"[", "A", "]", " ", "=", " ", "[", "C", "]">>
LineNote == <<"#", "n", "o", "t", "e">>
LineB == <<"[", "B", "]", " ", "=", " ", "[", "A", "]", "r", "e", "p", "e", "a",
           "t", "(", "[", "C", "]", ",", " ", "2", ")">>
LineImportGone == <<"i", "m", "p", "o", "r", "t", " ", "\"", ".", "/", "g", "o",
                    "n", "e", ".", "s", "e", "l", "f", "i", "e", "s", "\"">>
LineImportLib == <<"i", "m", "p", "o", "r", "t", " ", "\"", ".", "/", "l", "i",
                   "b", ".", "s", "e", "l", "f", "i", "e", "s", "\"">>
LineExportA == <<"e", "x", "p", "o", "r", "t", " ", "c", "o", "n", "s", "t", " ",
                 "A", " ", "=", " ", "F", "r", "a", "g", "m", "e", "n", "t">>
LineExportB == <<"U+3000", "e", "x", "p", "o", "r", "t", "U+2003", "\t", "c", "o",
                 "n", "s", "t", "U+205F", "B", "U+1680", "=", "R", "i", "n", "g",
                 "U+FEFF">>
LineSlashes == <<" ", " ", "/", "/", " ", "e", "x", "p", "o", "r", "t", " ", "c",
                 "o", "n", "s", "t", " ", "A", " ", "=">>
LineStar == <<"/", "*", "c", "*", "/", " ", "e", "x", "p", "o", "r", "t", " ",
              "c", "o", "n", "s", "t", " ", "A", " ", "=", " ", "1">>
LineConst == <<"c", "o", "n", "s", "t", " ", "x", " ", "=", " ", "1">>
LineHello == <<"h", "e", "l", "l", "o">>

\* [A] = [C] / (blank)
CS1 == [lines |-> <<LineA, <<>> >>,
        engine |-> [threw |-> FALSE, definitions |-> <<DefA>>,
                    errors |-> <<>>, warnings |-> <<>>]]
\* #note / [B] = [A]repeat([C], 2)
CS2 == [lines |-> <<LineNote, LineB>>,
        engine |-> [threw |-> FALSE,
                    definitions |->
                        <<[name |-> <<"B">>, line |-> 2,
                           tokens |-> <<[typeof |-> "string",
                                         value |-> <<"[", "A", "]">>],
                                        [typeof |-> "object", type |-> "REPEAT_CALL",
                                         pattern |-> <<"[", "C", "]">>,
                                         count |-> 2]>>]>>,
                    errors |-> <<ErrUndefined, ErrNoPosition>>,
                    warnings |-> <<WarnValence>>]]
\* (blank) / import "./gone.selfies" : the engine throws
CS3 == [lines |-> << <<>>, LineImportGone>>,
        engine |-> [threw |-> TRUE, message |-> "ENOENT"]]
\* a one-line document, with a definition the engine reports without tokens
CS4 == [lines |-> <<LineA>>,
        engine |-> [threw |-> FALSE,
                    definitions |-> <<[name |-> <<"A">>, line |-> 1]>>,
                    errors |-> <<>>, warnings |-> <<>>]]

\* entries of result.errors of every kind getSeverity tells apart
ErrKinds1 == <<[type |-> "error", message |-> "e1"],
               [type |-> "syntax", message |-> "e2", line |-> 1, column |-> 1],
               [type |-> "circular", message |-> "e3", line |-> 1],
               [type |-> "redefinition", message |-> "e4", code |-> "E4"],
               [type |-> "chemistry", message |-> "e5", code |-> ""]>>
ErrKinds2 == <<[type |-> "warning", message |-> "e6"],
               [type |-> "info", message |-> "e7"],
               [type |-> "hint", message |-> "e8"],
               [type |-> "deprecated", message |-> "e9"],
               [message |-> "e10"],
               [type |-> "", severity |-> "info", message |-> "e11"],
               [type |-> "other", severity |-> "warning", message |-> "e12"]>>
\* [A] = [C] / import "./lib.selfies", with findings of many kinds
CK1 == [lines |-> <<LineA, LineImportLib>>,
        engine |-> [threw |-> FALSE, definitions |-> <<DefA>>,
                    errors |-> ErrKinds1, warnings |-> <<>>]]
\* [A] = [C] / (blank), with findings of the other kinds and a definition
\* with tokens that are neither strings nor repeat calls
CK2 == [lines |-> <<LineA, <<>> >>,
        engine |-> [threw |-> FALSE,
                    definitions |-> <<[name |-> <<"A">>, line |-> 1,
                                  tokens |-> <<[typeof |-> "string", value |-> <<"[", "C", "]">>],
                                               [typeof |-> "object", type |-> "OTHER"],
                                               [typeof |-> "number", value |-> 12],
                                               [typeof |-> "number", value |-> -1],
                                               [typeof |-> "boolean", value |-> TRUE],
                                               [typeof |-> "undefined"]>>]>>,
                    errors |-> ErrKinds2, warnings |-> <<WarnValence>>]]

NoEngine == [threw |-> TRUE, message |-> "not a selfies file"]
\* export const A = Fragment / export const B=Ring, the second line with
\* white space above U+007F around the words
CJ1 == [lines |-> <<LineExportA, LineExportB>>, engine |-> NoEngine]
\* (two spaces)// export const A = / (blank)
CJ2 == [lines |-> <<LineSlashes, <<>> >>, engine |-> NoEngine]
\* /*c*/ export const A = 1 / const x = 1
CJ3 == [lines |-> <<LineStar, LineConst>>, engine |-> NoEngine]
CO1 == [lines |-> <<LineHello>>, engine |-> NoEngine]

\* the state holds the name of a document's content; this is the content
Content(id) ==
    CASE id = "CS1" -> CS1 [] id = "CS2" -> CS2 [] id = "CS3" -> CS3
      [] id = "CS4" -> CS4 [] id = "CJ1" -> CJ1 [] id = "CJ2" -> CJ2
      [] id = "CJ3" -> CJ3 [] id = "CK1" -> CK1 [] id = "CK2" -> CK2
      [] OTHER -> CO1

\* the contents a document can take
ContentsOf(d) ==
    CASE d = "a" -> {"CS1", "CS2", "CS3", "CS4"}
      [] d = "b" -> {"CS1", "CK1", "CK2"}
      [] d = "m" -> {"CJ1", "CJ2", "CJ3"}
      [] OTHER   -> {"CO1"}

\* the content a document has when the extension activates
InitialContent(d) ==
    CASE d = "a" -> "CS2"
      [] d = "b" -> "CS1"
      [] d = "m" -> "CJ1"
      [] OTHER   -> "CO1"

\* document.getText().split('\n'): the lines, untrimmed
LinesOfContent(id) == Content(id).lines

\* loadWithImports(text, fsPath): the result, or the throw
loadWithImports(id) == Content(id).engine

\* outcomes of getMolecularWeight(), getFormula()
CallOutcomes == {"throw", "ok"}

\* the outcomes of resolve, decode, getMolecularWeight, getFormula of one
\* run; a function the run does not call (lines 465, 486, and the try of
\* 487-489) has no outcome to choose, which is written as "ok".  resolve()
\* throws an error whose message is a non-empty string, throws one whose
\* message is the empty string, returns a falsy value or returns a
\* non-empty string; decode() throws (message non-empty or empty) or returns
EngineOutcomes ==
    {o \in {"throw", "throwEmpty", "falsy", "ok"} \X {"throw", "throwEmpty", "ok"}
            \X CallOutcomes \X CallOutcomes :
        /\ o[1] # "ok" => (o[2] = "ok" /\ o[3] = "ok" /\ o[4] = "ok")
        /\ o[2] = "throw" => (o[3] = "ok" /\ o[4] = "ok")
        /\ o[3] = "throw" => o[4] = "ok"}

\* the namespace of a loaded smiles-js module: what it holds under each
\* exported name ("fragment" is an object with a smiles field, "nosmiles"
\* one without)
Modules ==
    {[loaded |-> TRUE, exports |-> (<<"A">> :> "fragment")],
     [loaded |-> TRUE, exports |-> (<<"A">> :> "nosmiles") @@ (<<"B">> :> "fragment")]}
\* null, which _loadSmilesModule returns when import() rejected
ImportFailed == [loaded |-> FALSE]

\* module[exportName]; "absent" is undefined
Export(module, exportName) ==
    IF exportName \in DOMAIN module.exports THEN module.exports[exportName]
    ELSE "absent"

----------------------------------------------------------------------------
(* Values fired on the bus.  null is the record Null; a field that holds    *)
(* null is the string "null"; a field the object does not have is absent.  *)

Null == [kind |-> "null"]
\* nothing has been fired yet
NoValue == [kind |-> "none"]

\* a catch block that fires a fixed text instead of err.message
Caught_FixedText(line, message) ==
    [kind |-> "result", line |-> line, error |-> "error"]

\* { line, error } of the catch block
Caught(line, message) ==
    [kind |-> "result", line |-> line, error |-> message]

LineAtMessage == "Illegal value for line"
ResolveMessage == "resolve failed"
DecodeMessage == "decode failed"

----------------------------------------------------------------------------
(* Text helpers *)


\* the decimal digits of a natural number, as String(n) prints them
RECURSIVE Digits(_)
Digits(n) ==
    LET d == CASE n % 10 = 0 -> "0" [] n % 10 = 1 -> "1" [] n % 10 = 2 -> "2"
               [] n % 10 = 3 -> "3" [] n % 10 = 4 -> "4" [] n % 10 = 5 -> "5"
               [] n % 10 = 6 -> "6" [] n % 10 = 7 -> "7" [] n % 10 = 8 -> "8"
               [] OTHER -> "9"
    IN IF n < 10 THEN <<d>> ELSE Digits(n \div 10) \o <<d>>

\* the characters String.prototype.trim removes and \s matches: tab, line
\* feed, vertical tab, form feed, carriage return, space, no-break space,
\* U+1680, U+2000 to U+200A, U+2028, U+2029, U+202F, U+205F, U+3000 and
\* U+FEFF.  A text is the sequence of its UTF-16 code units, each a string:
\* the code units up to U+007F stand as themselves, a code unit above
\* U+007F is the string of its name (the no-break space is "U+00A0", e acute
\* "U+00E9"), so that the module is plain ASCII and reads the same in every
\* locale
Whitespace ==
    {" ", "\t", "\n", "\f", "\r", "", "U+00A0",
     "U+1680", "U+2000", "U+2001", "U+2002", "U+2003", "U+2004", "U+2005",
     "U+2006", "U+2007", "U+2008", "U+2009", "U+200A", "U+2028", "U+2029",
     "U+202F", "U+205F", "U+3000", "U+FEFF"}

\* the characters \w matches
WordChars ==
    {"a", "b", "c", "d", "e", "f", "g", "h", "i", "j", "k", "l", "m", "n", "o",
     "p", "q", "r", "s", "t", "u", "v", "w", "x", "y", "z",
     "A", "B", "C", "D", "E", "F", "G", "H", "I", "J", "K", "L", "M", "N", "O",
     "P", "Q", "R", "S", "T", "U", "V", "W", "X", "Y", "Z",
     "0", "1", "2", "3", "4", "5", "6", "7", "8", "9", "_"}

\* the first position from i on whose character is not in class (the
\* position after the end when there is none)
RECURSIVE SkipWhile(_, _, _)
SkipWhile(str, i, class) ==
    IF i > Len(str) THEN i
    ELSE IF str[i] \notin class THEN i
         ELSE SkipWhile(str, i + 1, class)

\* the last position up to i whose character is not in class (0 when there
\* is none)
RECURSIVE SkipBack(_, _, _)
SkipBack(str, i, class) ==
    IF i = 0 THEN 0
    ELSE IF str[i] \notin class THEN i
         ELSE SkipBack(str, i - 1, class)

\* text.trim()
Trim(str) ==
    LET first == SkipWhile(str, 1, Whitespace)
    IN IF first > Len(str) THEN <<>>
       ELSE SubSeq(str, first, SkipBack(str, Len(str), Whitespace))

\* document.lineAt(line).text.trim() (line 374)
LineText(id, line) == Trim(LinesOfContent(id)[line + 1])

\* !lineText, for the trimmed text of a line
IsEmptyLine(lineText) == lineText = <<>>

\* lineText.startsWith(marker)
StartsWith(lineText, marker) ==
    /\ Len(lineText) >= Len(marker)
    /\ SubSeq(lineText, 1, Len(marker)) = marker

\* the comment markers of the two formats
Hash == <<"#">>
Slashes == <<"/", "/">>
SlashStar == <<"/", "*">>

\* what a call returned, or the message of what it threw
Returned(value) == [threw |-> FALSE, text |-> value]
Threw(message) == [threw |-> TRUE, message |-> message]

NullTypeMessage == "Cannot read properties of null (reading 'type')"

\* token.type === 'REPEAT_CALL', for an object
IsRepeatCall(token) ==
    /\ token.typeof = "object"
    /\ "type" \in DOMAIN token
    /\ token.type = "REPEAT_CALL"

\* String(n) for an integer
NumberText(n) == IF n < 0 THEN <<"-">> \o Digits(-n) ELSE Digits(n)

\* String(token) for a token that is neither a string nor a repeat call: a
\* number, a boolean, undefined, or an object without a toString of its own
StringOf(token) ==
    IF token.typeof = "number" THEN NumberText(token.value)
    ELSE IF token.typeof = "boolean"
    THEN IF token.value THEN <<"t", "r", "u", "e">>
         ELSE <<"f", "a", "l", "s", "e">>
    ELSE IF token.typeof = "undefined"
         THEN <<"u", "n", "d", "e", "f", "i", "n", "e", "d">>
         ELSE <<"[", "o", "b", "j", "e", "c", "t", " ",
                "O", "b", "j", "e", "c", "t", "]">>

\* a repeat token printed with a separator before it and without its count
FormatToken_SeparatesRepeat(token) ==
    IF token.typeof = "string" THEN Returned(token.value)
    ELSE IF token.typeof = "null" THEN Threw(NullTypeMessage)
    ELSE IF IsRepeatCall(token)
         THEN Returned(<<" ", "r", "e", "p", "e", "a", "t", "(">> \o token.pattern
                       \o <<")">>)
         ELSE Returned(StringOf(token))

\* the callback of tokens.map in LineTracker._formatTokens (306-313): a
\* string as it is, a repeat call as repeat(pattern, count), anything else
\* as String(token) prints it; reading the type of null throws
FormatToken(token) ==
    IF token.typeof = "string" THEN Returned(token.value)
    ELSE IF token.typeof = "null" THEN Threw(NullTypeMessage)
    ELSE IF IsRepeatCall(token)
         THEN Returned(<<"r", "e", "p", "e", "a", "t", "(">> \o token.pattern
                       \o <<",", " ">> \o NumberText(token.count) \o <<")">>)
         ELSE Returned(StringOf(token))

\* LineTracker._formatTokens: the joined texts, or the first throw
RECURSIVE FormatTokens(_)
FormatTokens(tokens) ==
    IF tokens = <<>> THEN Returned(<<>>)
    ELSE LET first == FormatToken(Head(tokens))
             rest == FormatTokens(Tail(tokens))
         IN IF first.threw THEN first
            ELSE IF rest.threw THEN rest
                 ELSE Returned(first.text \o rest.text)

\* definition.tokens ? this._formatTokens(definition.tokens) : (empty string)
ExpressionOf(definition) ==
    IF "tokens" \in DOMAIN definition THEN FormatTokens(definition.tokens)
    ELSE Returned(<<>>)

ExportWord == <<"e", "x", "p", "o", "r", "t">>
ConstWord == <<"c", "o", "n", "s", "t">>

\* word stands in str from position i on
HasLiteral(str, i, word) ==
    /\ i + Len(word) - 1 <= Len(str)
    /\ SubSeq(str, i, i + Len(word) - 1) = word

NoMatch == [found |-> FALSE]

\* /export\s+const\s+(\w+)\s*=/ tried at position i of str: every
\* quantifier takes all it can, and giving characters back never helps,
\* since what follows a quantifier is not in its class
MatchExportAt(str, i) ==
    LET a == i + Len(ExportWord)
        b == SkipWhile(str, a, Whitespace)
        c == b + Len(ConstWord)
        d == SkipWhile(str, c, Whitespace)
        e == SkipWhile(str, d, WordChars)
        f == SkipWhile(str, e, Whitespace)
    IN IF /\ HasLiteral(str, i, ExportWord)
          /\ b > a
          /\ HasLiteral(str, b, ConstWord)
          /\ d > c
          /\ e > d
          /\ HasLiteral(str, f, <<"=">>)
       THEN [found |-> TRUE, name |-> SubSeq(str, d, e - 1)]
       ELSE NoMatch

\* the first match at position i or later
RECURSIVE MatchExportFrom(_, _)
MatchExportFrom(str, i) ==
    IF i > Len(str) THEN NoMatch
    ELSE LET match == MatchExportAt(str, i)
         IN IF match.found THEN match ELSE MatchExportFrom(str, i + 1)

\* LineTracker._findExportAtLine: the name captured by the leftmost match
\* of line.match(/export\s+const\s+(\w+)\s*=/) on line lineNumber of the
\* text, or no match (null)
FindExportAtLine(lines, lineNumber) ==
    IF lineNumber + 1 \notin DOMAIN lines THEN NoMatch
    ELSE IF lines[lineNumber + 1] = <<>> THEN NoMatch
         ELSE MatchExportFrom(lines[lineNumber + 1], 1)

----------------------------------------------------------------------------
(* The declarative path of _updateLineInfo *)

NoParse == [present |-> FALSE]
\* the result of loadWithImports for document d with the given content
Built(d, content) == [present |-> TRUE, doc |-> d, content |-> content]

\* the 1-based line of the engine for a 0-based line of the editor (line 447)
ToDefinitionLine(n) == n + 1

\* definitionsArray.find((def) => def.line === this._currentLine + 1)
FindDefinition(definitions, line) ==
    LET hits == {i \in DOMAIN definitions : definitions[i].line = ToDefinitionLine(line)}
    IN IF hits = {} THEN [found |-> FALSE]
       ELSE [found |-> TRUE, def |-> definitions[CHOOSE x \in hits : \A y \in hits : x <= y]]

\* a value that is neither null nor the empty string
Truthy(value) == value \notin {"null", ""}

\* lines 455-506 firing only { line, error } when resolve fails
ResolveDefinition_DropsName(line, def, rs, dc, mw, fm) ==
    LET expression == ExpressionOf(def)
        selfies == IF rs = "ok" THEN "SELFIES" ELSE "null"
        error1 == CASE rs = "throw" -> ResolveMessage
                    [] rs = "throwEmpty" -> ""
                    [] OTHER -> "null"
    IN IF expression.threw THEN Caught(line, expression.message)
       ELSE IF selfies = "null"
       THEN Caught(line, IF Truthy(error1) THEN error1
                          ELSE "Could not resolve definition")
       ELSE LET smiles == IF dc = "ok" THEN "SMILES" ELSE "null"
                error2 == CASE dc = "throw" -> DecodeMessage
                            [] dc = "throwEmpty" -> ""
                            [] OTHER -> error1
                tryProps == ~Truthy(error2)
                molecularWeight == IF tryProps /\ mw = "ok" THEN "16.04" ELSE "null"
                formula == IF tryProps /\ mw = "ok" /\ fm = "ok" THEN "CH4" ELSE "null"
            IN [kind |-> "result", line |-> line, name |-> def.name,
                expression |-> expression.text,
                selfies |-> selfies, smiles |-> smiles,
                molecularWeight |-> molecularWeight, formula |-> formula,
                error |-> error2]

\* lines 455-506 discarding the encoded form when decode throws
ResolveDefinition_DropsSelfies(line, def, rs, dc, mw, fm) ==
    LET expression == ExpressionOf(def)
        selfies == IF rs = "ok" THEN "SELFIES" ELSE "null"
        error1 == CASE rs = "throw" -> ResolveMessage
                    [] rs = "throwEmpty" -> ""
                    [] OTHER -> "null"
    IN IF expression.threw THEN Caught(line, expression.message)
       ELSE IF selfies = "null"
       THEN [kind |-> "result", line |-> line, name |-> def.name,
             expression |-> expression.text,
             error |-> IF Truthy(error1) THEN error1
                       ELSE "Could not resolve definition"]
       ELSE LET smiles == IF dc = "ok" THEN "SMILES" ELSE "null"
                error2 == CASE dc = "throw" -> DecodeMessage
                            [] dc = "throwEmpty" -> ""
                            [] OTHER -> error1
                tryProps == ~Truthy(error2)
                molecularWeight == IF tryProps /\ mw = "ok" THEN "16.04" ELSE "null"
                formula == IF tryProps /\ mw = "ok" /\ fm = "ok" THEN "CH4" ELSE "null"
            IN [kind |-> "result", line |-> line, name |-> def.name,
                expression |-> expression.text,
                selfies |-> IF dc = "ok" THEN selfies ELSE "null", smiles |-> smiles,
                molecularWeight |-> molecularWeight, formula |-> formula,
                error |-> error2]

\* lines 455-506: resolve, decode, properties; the one value fired.  The
\* guards of lines 471 and 486 test the message for truthiness, so an
\* empty message counts as no error
ResolveDefinition(line, def, rs, dc, mw, fm) ==
    LET expression == ExpressionOf(def)
        selfies == IF rs = "ok" THEN "SELFIES" ELSE "null"
        error1 == CASE rs = "throw" -> ResolveMessage
                    [] rs = "throwEmpty" -> ""
                    [] OTHER -> "null"
    IN IF expression.threw THEN Caught(line, expression.message)
       ELSE IF selfies = "null"
       THEN [kind |-> "result", line |-> line, name |-> def.name,
             expression |-> expression.text,
             error |-> IF Truthy(error1) THEN error1
                       ELSE "Could not resolve definition"]
       ELSE LET smiles == IF dc = "ok" THEN "SMILES" ELSE "null"
                error2 == CASE dc = "throw" -> DecodeMessage
                            [] dc = "throwEmpty" -> ""
                            [] OTHER -> error1
                tryProps == ~Truthy(error2)
                molecularWeight == IF tryProps /\ mw = "ok" THEN "16.04" ELSE "null"
                formula == IF tryProps /\ mw = "ok" /\ fm = "ok" THEN "CH4" ELSE "null"
            IN [kind |-> "result", line |-> line, name |-> def.name,
                expression |-> expression.text,
                selfies |-> selfies, smiles |-> smiles,
                molecularWeight |-> molecularWeight, formula |-> formula,
                error |-> error2]

\* a call of a function of the engine, of fs or of import(), with its
\* outcome; "export" is the read of module[exportName] (lines 396-404), its
\* outcome what the module holds under that name
Call(fn, outcome) == <<fn, outcome>>

\* lines 459-489: the calls of the engine made for a definition, in order
ResolveCalls(rs, dc, mw, fm) ==
    <<Call("resolve", rs)>>
    \o (IF rs # "ok" THEN <<>>
        ELSE <<Call("decode", dc)>>
             \o (IF dc = "throw" THEN <<>>
                 ELSE <<Call("getMolecularWeight", mw)>>
                      \o (IF mw # "ok" THEN <<>>
                          ELSE <<Call("getFormula", fm)>>)))

\* the run firing an error result when no definition is on the line
SelfiesRun_MissingIsError(d, content, line, pr, rs, dc, mw, fm) ==
    IF line + 1 \notin DOMAIN LinesOfContent(content)
    THEN [pubs |-> <<Caught(line, LineAtMessage)>>, parse |-> pr, calls |-> <<>>]
    ELSE LET lineText == LineText(content, line)
             loaded == loadWithImports(content)
             build == IF pr.present THEN <<>>
                      ELSE <<Call("loadWithImports",
                                  IF loaded.threw THEN "throw" ELSE "ok")>>
         IN IF ~pr.present /\ loaded.threw
            THEN [pubs |-> <<Caught(line, loaded.message)>>, parse |-> pr,
                  calls |-> build]
            ELSE LET pr2 == IF pr.present THEN pr ELSE Built(d, content)
                     found == FindDefinition(loadWithImports(pr2.content).definitions, line)
                 IN IF IsEmptyLine(lineText) \/ StartsWith(lineText, Hash)
                    THEN [pubs |-> <<Null>>, parse |-> pr2, calls |-> build]
                    ELSE IF ~found.found
                         THEN [pubs |-> <<Caught(line, "No definition on this line")>>,
                               parse |-> pr2, calls |-> build]
                         ELSE [pubs |-> <<ResolveDefinition(line, found.def, rs, dc, mw, fm)>>,
                               parse |-> pr2,
                               calls |-> build \o ResolveCalls(rs, dc, mw, fm)]

\* lines 373-374 and 431-513 for a selfies document: the values fired, the
\* new _parseResult and the calls made
SelfiesRun(d, content, line, pr, rs, dc, mw, fm) ==
    IF line + 1 \notin DOMAIN LinesOfContent(content)
    THEN [pubs |-> <<Caught(line, LineAtMessage)>>, parse |-> pr, calls |-> <<>>]
    ELSE LET lineText == LineText(content, line)
             loaded == loadWithImports(content)
             build == IF pr.present THEN <<>>
                      ELSE <<Call("loadWithImports",
                                  IF loaded.threw THEN "throw" ELSE "ok")>>
         IN IF ~pr.present /\ loaded.threw
            THEN [pubs |-> <<Caught(line, loaded.message)>>, parse |-> pr,
                  calls |-> build]
            ELSE LET pr2 == IF pr.present THEN pr ELSE Built(d, content)
                     found == FindDefinition(loadWithImports(pr2.content).definitions, line)
                 IN IF IsEmptyLine(lineText) \/ StartsWith(lineText, Hash)
                    THEN [pubs |-> <<Null>>, parse |-> pr2, calls |-> build]
                    ELSE IF ~found.found
                         THEN [pubs |-> <<Null>>, parse |-> pr2, calls |-> build]
                         ELSE [pubs |-> <<ResolveDefinition(line, found.def, rs, dc, mw, fm)>>,
                               parse |-> pr2,
                               calls |-> build \o ResolveCalls(rs, dc, mw, fm)]

----------------------------------------------------------------------------
(* The executable-module path of _updateLineInfo *)

\* the cache key of line 321: the file path and fs.statSync(filePath).mtimeMs
CacheKey(d, mtime) == <<fileName(d), mtime>>

\* lines 396-428 returning without firing when the module is missing
SmilesFinish_SilentOnFailure(module, exportName, lineText, lineNow) ==
    IF ~module.loaded THEN <<>>
    ELSE IF Export(module, exportName) = "absent"
         THEN <<>>
         ELSE IF Export(module, exportName) = "nosmiles"
              THEN <<Null>>
              ELSE <<[kind |-> "result", line |-> lineNow, name |-> exportName,
                      expression |-> lineText, selfies |-> "null",
                      smiles |-> "SMILES", molecularWeight |-> "16.04",
                      formula |-> "CH4", error |-> "null"]>>

\* lines 396-428 firing an error result for an export the module lacks
SmilesFinish_ErrorOnMissing(module, exportName, lineText, lineNow) ==
    IF ~module.loaded THEN <<Null>>
    ELSE IF Export(module, exportName) = "absent"
         THEN <<Caught(lineNow, "export not found")>>
         ELSE IF Export(module, exportName) = "nosmiles"
              THEN <<Caught(lineNow, "export not found")>>
              ELSE <<[kind |-> "result", line |-> lineNow, name |-> exportName,
                      expression |-> lineText, selfies |-> "null",
                      smiles |-> "SMILES", molecularWeight |-> "16.04",
                      formula |-> "CH4", error |-> "null"]>>

\* lines 396-428: what is fired once the module (or null) is there; lineNow
\* is this._currentLine when the run resumes
SmilesFinish(module, exportName, lineText, lineNow) ==
    IF ~module.loaded THEN <<Null>>
    ELSE IF Export(module, exportName) = "absent"
         THEN <<Null>>
         ELSE IF Export(module, exportName) = "nosmiles"
              THEN <<Null>>
              ELSE <<[kind |-> "result", line |-> lineNow, name |-> exportName,
                      expression |-> lineText, selfies |-> "null",
                      smiles |-> "SMILES", molecularWeight |-> "16.04",
                      formula |-> "CH4", error |-> "null"]>>

\* lines 373-394 and the start of _loadSmilesModule (319-331): the value
\* fired before the first await, or the run that suspends on the await of
\* line 394.  The load of a suspended run says how the call of
\* _loadSmilesModule goes on: statSync threw (line 321), the cache held the
\* key (322-324), import() is awaited (331), or import() has settled and
\* the call returned the module or null (338, 341).  _loadSmilesModule is an async function, so the await yields
\* whether the call threw, found the module in the cache or imports it
SmilesStart(d, content, line, cache, mtime, statThrows) ==
    IF line + 1 \notin DOMAIN LinesOfContent(content)
    THEN [suspend |-> FALSE, pubs |-> <<Caught(line, LineAtMessage)>>, calls |-> <<>>]
    ELSE LET lineText == LineText(content, line)
             export == FindExportAtLine(LinesOfContent(content), line)
             cacheKey == CacheKey(d, mtime)
         IN IF IsEmptyLine(lineText) \/ StartsWith(lineText, Slashes)
                                      \/ StartsWith(lineText, SlashStar)
            THEN [suspend |-> FALSE, pubs |-> <<Null>>, calls |-> <<>>]
            ELSE IF ~export.found
                 THEN [suspend |-> FALSE, pubs |-> <<Null>>, calls |-> <<>>]
                 ELSE IF statThrows
                      THEN [suspend |-> TRUE,
                            run |-> [exportName |-> export.name,
                                     lineText |-> lineText,
                                     load |-> [kind |-> "threw",
                                              message |-> "ENOENT: no such file or directory"]],
                            calls |-> <<Call("statSync", "throw")>>]
                      ELSE IF cacheKey \in DOMAIN cache
                           THEN [suspend |-> TRUE,
                                 run |-> [exportName |-> export.name,
                                          lineText |-> lineText,
                                          load |-> [kind |-> "hit",
                                                   module |-> cache[cacheKey]]],
                                 hit |-> cacheKey,
                                 calls |-> <<Call("statSync", "ok")>>]
                           ELSE [suspend |-> TRUE,
                                 run |-> [exportName |-> export.name,
                                          lineText |-> lineText,
                                          load |-> [kind |-> "import",
                                                   cacheKey |-> cacheKey]],
                                 calls |-> <<Call("statSync", "ok"),
                                             Call("import", "pending")>>]

\* line 336 without the clear() of line 335
CacheStore_NoClear(cache, cacheKey, module) ==
    [k \in DOMAIN cache \cup {cacheKey} |->
        IF k = cacheKey THEN module ELSE cache[k]]

\* lines 335-336 of _loadSmilesModule: clear the Map, then set the entry
CacheStore(cache, cacheKey, module) ==
    [k \in {cacheKey} |-> module]

----------------------------------------------------------------------------
(* The diagnostics provider *)

SeverityError == "Error"
SeverityWarning == "Warning"
SeverityInformation == "Information"
SeverityHint == "Hint"

\* getSeverity with a default of Warning
getSeverity_DefaultsToWarning(type) ==
    CASE type \in {"error", "syntax", "undefined", "circular", "redefinition"}
            -> SeverityError
      [] type \in {"warning", "chemistry"} -> SeverityWarning
      [] type = "info" -> SeverityInformation
      [] type = "hint" -> SeverityHint
      [] OTHER -> SeverityWarning

\* getSeverity
getSeverity(type) ==
    CASE type \in {"error", "syntax", "undefined", "circular", "redefinition"}
            -> SeverityError
      [] type \in {"warning", "chemistry"} -> SeverityWarning
      [] type = "info" -> SeverityInformation
      [] type = "hint" -> SeverityHint
      [] OTHER -> SeverityError

\* the engine line as the editor line itself
ToEditorLine_Identity(m) == m

\* the 0-based line of the editor for a 1-based line of the engine (lines 33, 65)
ToEditorLine(m) == m - 1

\* the range of an entry with 1-based columns kept as they are
RangeOf_OneBasedColumns(e) ==
    LET line == IF "line" \in DOMAIN e THEN ToEditorLine(e.line) ELSE 0
        column == IF "column" \in DOMAIN e THEN e.column ELSE 0
        endColumn == IF "endColumn" \in DOMAIN e THEN e.endColumn ELSE column + 1
    IN [startLine |-> line, startCol |-> column,
        endLine |-> line, endCol |-> endColumn]

\* the vscode.Range of an engine error or warning (lines 33-40, 65-72)
RangeOf(e) ==
    LET line == IF "line" \in DOMAIN e THEN ToEditorLine(e.line) ELSE 0
        column == IF "column" \in DOMAIN e THEN e.column - 1 ELSE 0
        endColumn == IF "endColumn" \in DOMAIN e THEN e.endColumn - 1 ELSE column + 1
    IN [startLine |-> line, startCol |-> column,
        endLine |-> line, endCol |-> endColumn]

\* error.type || error.severity: an absent or empty type is falsy
KindOf(e) ==
    IF "type" \in DOMAIN e /\ e.type # "" THEN e.type
    ELSE IF "severity" \in DOMAIN e THEN e.severity ELSE "undefined"

\* lines 31-58: the diagnostic of one entry of result.errors; the code is
\* set when error.code is truthy (53-55); a code is a string here, falsy
\* when empty
ErrorDiagnostic(e) ==
    LET base == [range |-> RangeOf(e), message |-> e.message,
                 severity |-> getSeverity(KindOf(e)), source |-> "selfies"]
    IN IF "code" \in DOMAIN e /\ e.code # ""
       THEN [range |-> base.range, message |-> base.message,
             severity |-> base.severity, source |-> base.source, code |-> e.code]
       ELSE base

\* lines 63-82: the diagnostic of one entry of result.warnings
WarningDiagnostic(w) ==
    [range |-> RangeOf(w), message |-> w.message,
     severity |-> SeverityWarning, source |-> "selfies"]

\* lines 86-93 with the severity of a warning
ParseFailureDiagnostic_Warning(message) ==
    [range |-> [startLine |-> 0, startCol |-> 0, endLine |-> 0, endCol |-> 1],
     message |-> <<"Failed to parse SELFIES file: ", message>>,
     severity |-> SeverityWarning, source |-> "selfies"]

\* lines 86-93: the diagnostic of a throw of the engine
ParseFailureDiagnostic(message) ==
    [range |-> [startLine |-> 0, startCol |-> 0, endLine |-> 0, endCol |-> 1],
     message |-> <<"Failed to parse SELFIES file: ", message>>,
     severity |-> SeverityError, source |-> "selfies"]

\* lines 21-94: the array built by one run of updateDiagnostics
BuildDiagnostics(content) ==
    LET result == loadWithImports(content)
    IN IF result.threw THEN <<ParseFailureDiagnostic(result.message)>>
       ELSE [i \in 1..Len(result.errors) |-> ErrorDiagnostic(result.errors[i])]
            \o [i \in 1..Len(result.warnings) |-> WarningDiagnostic(result.warnings[i])]

\* a set() that appends to the records stored for the document
CollectionSet_Appends(collection, d, diagnostics) ==
    [x \in DOMAIN collection \cup {d} |->
        IF x = d
        THEN (IF d \in DOMAIN collection THEN collection[d] ELSE <<>>) \o diagnostics
        ELSE collection[x]]

\* diagnosticCollection.set(uri, diagnostics)
CollectionSet(collection, d, diagnostics) ==
    [x \in DOMAIN collection \cup {d} |->
        IF x = d THEN diagnostics ELSE collection[x]]

\* a close listener that leaves the entry in place
CollectionDelete_Keeps(collection, d) == collection

\* diagnosticCollection.delete(uri)
CollectionDelete(collection, d) ==
    [x \in DOMAIN collection \ {d} |-> collection[x]]

\* updateDiagnostics pushing onto the array stored by the run before
updateDiagnostics_Appends(collection, d, content) ==
    IF languageId(d) # "selfies" THEN collection
    ELSE CollectionSet(collection, d,
             (IF d \in DOMAIN collection THEN collection[d] ELSE <<>>)
                 \o BuildDiagnostics(content))

\* updateDiagnostics(document): the collection after the run
updateDiagnostics(collection, d, content) ==
    IF languageId(d) # "selfies" THEN collection
    ELSE CollectionSet(collection, d, BuildDiagnostics(content))

----------------------------------------------------------------------------
(* _updateLineInfo *)

\* lastRun: phase is what became of a run in the last step (none started,
\* completed before the handler returned, suspended on the await of line
\* 394, its call of _loadSmilesModule loaded the module, resumed from the
\* await and completed); pubs counts the values the step fired;
\* switch tells whether the step changed the tracked document from one
\* document to another, and whether the cursor line stayed the same; calls
\* lists the calls of the engine, of fs.statSync and of import() the step made
NoRun == [phase |-> "none", pubs |-> 0, switch |-> "no", calls |-> <<>>]

\* no call of _loadSmilesModule has been made yet.  Of the call made last
\* the tracker's history keeps the cache key (none when statSync threw),
\* whether the call has returned or thrown, and whether it returned exports
NoLoad == [key |-> <<>>, returned |-> FALSE, ok |-> FALSE]

\* the content of a tracked document (nothing when no document is tracked)
ContentOf(d) == IF d \in Docs THEN text[d] ELSE "CO1"

\* this._currentDocument is a TextDocument object of the host: while the
\* document is open the object shows the text of the document
Live == "live"

\* this._currentDocument.getText() (374, 433): the text of the object the
\* tracker holds.  A closed object keeps the text it had when it was closed,
\* also after the host opened the same file again as a new object
HeldContent == IF heldText = Live THEN ContentOf(currentDocument) ELSE heldText

\* the line numbers the host reports for a document
LinesOf(d) == IF d \in Docs THEN 0..(Len(LinesOfContent(text[d])) - 1) ELSE {0}

\* the part of the tracker a run reads and writes besides _parseResult
Tracker ==
    [pending |-> pending, nSuperseded |-> nSuperseded, bus |-> bus,
     prevLoad |-> prevLoad, cache |-> smilesModuleCache, mtime |-> mtimeMs]

\* the tracker after a run that fired pubs before the handler returned; the
\* run started last, so every run still suspended is older than it
Completed(t, pr, pubs) ==
    [parseResult |-> pr,
     pending |-> t.pending,
     nSuperseded |-> IF pubs = <<>> THEN t.nSuperseded ELSE Len(t.pending),
     bus |-> IF pubs = <<>> THEN t.bus
             ELSE [value |-> pubs[Len(pubs)], stale |-> FALSE],
     prevLoad |-> t.prevLoad,
     lastRun |-> [phase |-> "completed", pubs |-> Len(pubs), switch |-> "no",
                  calls |-> <<>>]]

\* the place a continuation takes in the microtask queue when it is queued
\* behind the continuations of the suspended runs p that are already there
NextTicket(p) == Cardinality({i \in DOMAIN p : p[i].queued > 0}) + 1

\* the tracker after a run that suspended on the await of line 394: when the
\* call of _loadSmilesModule has returned or thrown already, the continuation
\* of the run is queued at once.  call is the call of _loadSmilesModule the
\* run made
Suspended(t, pr, run, call) ==
    [parseResult |-> pr,
     pending |-> Append(t.pending,
                        run @@ [queued |-> IF run.load.kind = "import" THEN 0
                                           ELSE NextTicket(t.pending)]),
     nSuperseded |-> t.nSuperseded,
     bus |-> t.bus,
     prevLoad |-> call,
     lastRun |-> [phase |-> "suspended", pubs |-> 0, switch |-> "no",
                  calls |-> <<>>]]

\* the tracker after a call that returned at line 367-369
NotRun(t, pr) ==
    [parseResult |-> pr, pending |-> t.pending, nSuperseded |-> t.nSuperseded,
     bus |-> t.bus, prevLoad |-> t.prevLoad, lastRun |-> NoRun]

\* outcome o of a run, with the calls the run made
WithCalls(o, calls) == [o EXCEPT !.lastRun.calls = calls]

\* LineTracker._updateLineInfo up to its return or its suspension: the
\* possible outcomes, for the tracked document doc with the given content,
\* the tracked line and the memoized resolution pr.  The outcomes of the
\* engine calls are drawn only on the path that reaches resolve()
UpdateLineInfo(t, doc, content, line, pr) ==
    IF doc = NoDoc \/ line = NoLine THEN {NotRun(t, pr)}
    ELSE IF EndsWithSmilesJs(fileName(doc))
         THEN {LET r == SmilesStart(doc, content, line, t.cache, t.mtime, statThrows)
               IN WithCalls(IF r.suspend
                            THEN Suspended(t, pr, r.run,
                                     CASE r.run.load.kind = "hit" ->
                                              [key |-> r.hit, returned |-> TRUE,
                                               ok |-> TRUE]
                                       [] r.run.load.kind = "import" ->
                                              [key |-> r.run.load.cacheKey,
                                               returned |-> FALSE, ok |-> FALSE]
                                       [] OTHER ->
                                              [key |-> <<>>, returned |-> TRUE,
                                               ok |-> FALSE])
                            ELSE Completed(t, pr, r.pubs),
                            r.calls)
               : statThrows \in {t.mtime = NoFile}}
         ELSE LET r0 == SelfiesRun(doc, content, line, pr, "ok", "ok", "ok", "ok")
              IN IF r0.pubs # <<>> /\ "selfies" \in DOMAIN r0.pubs[1]
                 THEN {LET r == SelfiesRun(doc, content, line, pr, o[1], o[2], o[3], o[4])
                       IN WithCalls(Completed(t, r.parse, r.pubs), r.calls)
                       : o \in engineOutcomes}
                 ELSE {WithCalls(Completed(t, r0.parse, r0.pubs), r0.calls)}

\* the tracker's variables take the values of outcome o
TrackerBecomes(doc, line, o) ==
    /\ Len(o.pending) <= MaxPending
    /\ currentDocument' = doc
    /\ currentLine' = line
    /\ parseResult' = o.parseResult
    /\ pending' = o.pending
    /\ nSuperseded' = o.nSuperseded
    /\ bus' = o.bus
    /\ prevLoad' = o.prevLoad
    /\ lastRun' = o.lastRun

\* how many times the run of outcome o called loadWithImports
Builds(o) ==
    Cardinality({i \in DOMAIN o.lastRun.calls :
                    o.lastRun.calls[i][1] = "loadWithImports"})

\* the run of outcome o adds its calls of loadWithImports to base
BuildsBecome(base, o) ==
    /\ base + Builds(o) <= MaxBuilds
    /\ buildsSinceReset' = base + Builds(o)

\* a handler that returns without touching the tracker
TrackerIdle ==
    /\ lastRun' = NoRun
    /\ UNCHANGED <<currentDocument, currentLine, parseResult, heldText, pending,
                   nSuperseded, bus, prevLoad, buildsSinceReset>>

----------------------------------------------------------------------------
(* Event handlers of LineTracker *)

\* _handleSelectionChange without the comparison of line 282
HandleSelectionChange_AlwaysRuns(d, line) ==
    IF ~IsSupportedFile(d) THEN TrackerIdle
    ELSE \E o \in UpdateLineInfo(Tracker, currentDocument, HeldContent,
                                 line, parseResult) :
             /\ BuildsBecome(buildsSinceReset, o)
             /\ TrackerBecomes(currentDocument, line, o)
             /\ UNCHANGED heldText

\* _handleSelectionChange resetting _parseResult before every run
HandleSelectionChange_Rebuilds(d, line) ==
    IF ~IsSupportedFile(d) THEN TrackerIdle
    ELSE IF currentLine # line
         THEN \E o \in UpdateLineInfo(Tracker, currentDocument, HeldContent,
                                      line, NoParse) :
                  /\ BuildsBecome(buildsSinceReset, o)
                  /\ TrackerBecomes(currentDocument, line, o)
                  /\ UNCHANGED heldText
         ELSE TrackerIdle

\* _handleSelectionChange resolving the document of the event when no
\* document is tracked
HandleSelectionChange_RunsUntracked(d, line) ==
    IF ~IsSupportedFile(d) THEN TrackerIdle
    ELSE IF currentLine # line
         THEN LET doc == IF currentDocument = NoDoc THEN d ELSE currentDocument
                  content == IF currentDocument = NoDoc THEN ContentOf(d)
                             ELSE HeldContent
              IN \E o \in UpdateLineInfo(Tracker, doc, content, line, parseResult) :
                     /\ BuildsBecome(buildsSinceReset, o)
                     /\ TrackerBecomes(currentDocument, line, o)
                     /\ UNCHANGED heldText
         ELSE TrackerIdle

\* LineTracker._handleSelectionChange
HandleSelectionChange(d, line) ==
    IF ~IsSupportedFile(d) THEN TrackerIdle
    ELSE IF currentLine # line
         THEN \E o \in UpdateLineInfo(Tracker, currentDocument, HeldContent,
                                      line, parseResult) :
                  /\ BuildsBecome(buildsSinceReset, o)
                  /\ TrackerBecomes(currentDocument, line, o)
                  /\ UNCHANGED heldText
         ELSE TrackerIdle

\* LineTracker._handleDocumentChange(event.document) for document d of the
\* event, now of the given content: line 293 tests the document of the
\* event, the run reads this._currentDocument (374, 433), which is the edited
\* object only while it is open
HandleDocumentChange(d, content) ==
    IF ~IsSupportedFile(d) THEN TrackerIdle
    ELSE \E o \in UpdateLineInfo(Tracker, currentDocument,
                                 IF heldText = Live THEN content ELSE heldText,
                                 currentLine, NoParse) :
             /\ BuildsBecome(0, o)
             /\ TrackerBecomes(currentDocument, currentLine, o)
             /\ UNCHANGED heldText

\* the listener of onDidChangeTextDocument in the constructor (231-235):
\* line 232 compares the uri strings, which name the file and not the object
TrackerDocumentChangeListener(d, content) ==
    IF currentDocument # NoDoc /\ d = currentDocument
    THEN HandleDocumentChange(d, content)
    ELSE TrackerIdle

\* the listener going through the line comparison of _handleSelectionChange
\* instead of lines 254-256
EditorChangeListener_ViaSelectionChange(e, line) ==
    IF e # NoDoc /\ IsSupportedFile(e)
    THEN LET documentChanged == currentDocument # e \/ heldText # Live
             pr == IF documentChanged THEN NoParse ELSE parseResult
             switch == IF ~documentChanged \/ currentDocument = NoDoc THEN "no"
                       ELSE IF line = currentLine THEN "sameLine" ELSE "otherLine"
             base == IF documentChanged THEN 0 ELSE buildsSinceReset
         IN IF currentLine # line
            THEN \E o \in UpdateLineInfo(Tracker, e, ContentOf(e), line, pr) :
                     /\ BuildsBecome(base, o)
                     /\ TrackerBecomes(e, line, [o EXCEPT !.lastRun.switch = switch])
                     /\ heldText' = Live
            ELSE /\ buildsSinceReset' = base
                 /\ TrackerBecomes(e, line,
                        [NotRun(Tracker, pr) EXCEPT !.lastRun.switch = switch])
                 /\ heldText' = Live
    ELSE TrackerIdle

\* the listener without line 250: the memoized resolution outlives a switch
EditorChangeListener_KeepsMemo(e, line) ==
    IF e # NoDoc /\ IsSupportedFile(e)
    THEN LET documentChanged == currentDocument # e \/ heldText # Live
             pr == parseResult
             switch == IF ~documentChanged \/ currentDocument = NoDoc THEN "no"
                       ELSE IF line = currentLine THEN "sameLine" ELSE "otherLine"
             base == IF documentChanged THEN 0 ELSE buildsSinceReset
         IN \E o \in UpdateLineInfo(Tracker, e, ContentOf(e), line, pr) :
                /\ BuildsBecome(base, o)
                /\ TrackerBecomes(e, line, [o EXCEPT !.lastRun.switch = switch])
                /\ heldText' = Live
    ELSE TrackerIdle

\* the listener of onDidChangeActiveTextEditor in the constructor (245-258):
\* line 248 compares objects, and editor.document is an open one, so a closed
\* object in _currentDocument differs from it also when the file is the same
EditorChangeListener(e, line) ==
    IF e # NoDoc /\ IsSupportedFile(e)
    THEN LET documentChanged == currentDocument # e \/ heldText # Live
             pr == IF documentChanged THEN NoParse ELSE parseResult
             switch == IF ~documentChanged \/ currentDocument = NoDoc THEN "no"
                       ELSE IF line = currentLine THEN "sameLine" ELSE "otherLine"
             base == IF documentChanged THEN 0 ELSE buildsSinceReset
         IN \E o \in UpdateLineInfo(Tracker, e, ContentOf(e), line, pr) :
                /\ BuildsBecome(base, o)
                /\ TrackerBecomes(e, line, [o EXCEPT !.lastRun.switch = switch])
                /\ heldText' = Live
    ELSE TrackerIdle

----------------------------------------------------------------------------
(* The microtask queue *)

\* the suspended runs whose call of _loadSmilesModule has returned or
\* thrown: their continuations are in the microtask queue, pending[i].queued
\* being the place of run i in it
Ready == {i \in DOMAIN pending : pending[i].queued > 0}

\* the microtask queue is being emptied: a continuation has run and others
\* are queued behind it.  Nothing is delivered by the host before the queue
\* is empty
Draining == lastRun.phase = "resumed" /\ Ready # {}

\* the suspended runs whose load is of one of the given kinds
LoadsOf(kinds) == {i \in DOMAIN pending : pending[i].load.kind \in kinds}

\* the host delivers an event (a cursor move, an edit, a command) or the
\* file changes on disk.  Several events can be delivered before the queue
\* is emptied.  A handler that runs in the same turn as a settled import
\* runs before the continuation of _loadSmilesModule (line 332) and finds
\* the cache as it was, as if the import had settled after it: the model
\* has the events of such a turn first
DeliversEvent == ~Draining /\ LoadsOf({"returned"}) = {}

----------------------------------------------------------------------------
(* Disposal *)

\* LineTracker.dispose (525-530) has run: the three listeners of the
\* constructor and the emitter _onDidChangeCurrentLine are disposed
TrackerDisposed == "tracker" \in disposed

\* the dispose of the object createDiagnosticsProvider returns
\* (diagnostics.js 140-145) has run: the collection and the three listeners
\* are disposed
ProviderDisposed == "diagnostics" \in disposed

\* this._onDidChangeCurrentLine.fire of a run of outcome o: a disposed
\* emitter has no listener, so nothing is published
Fired(o) ==
    IF TrackerDisposed
    THEN [o EXCEPT !.bus = bus, !.nSuperseded = nSuperseded, !.lastRun.pubs = 0]
    ELSE o

\* the listeners of the diagnostics provider run for document d with the
\* given content (diagnostics.js 121-128), unless they are disposed
ProviderUpdates(d, content) ==
    diagnosticCollection' = IF ProviderDisposed THEN diagnosticCollection
                            ELSE updateDiagnostics(diagnosticCollection, d, content)

----------------------------------------------------------------------------
(* Actions *)

\* a cursor move that also clears the diagnostics of the document
DidChangeTextEditorSelection_ClearsDiagnostics(d, line) ==
    /\ DeliversEvent
    /\ d \in openDocs
    /\ line \in LinesOf(d)
    /\ IF TrackerDisposed THEN TrackerIdle ELSE HandleSelectionChange(d, line)
    /\ diagnosticCollection' = CollectionDelete(diagnosticCollection, d)
    /\ UNCHANGED <<text, openDocs, mtimeMs, smilesModuleCache, disposed>>

\* the cursor moves in the editor of an open document
DidChangeTextEditorSelection(d, line) ==
    /\ DeliversEvent
    /\ d \in openDocs
    /\ line \in LinesOf(d)
    /\ IF TrackerDisposed THEN TrackerIdle ELSE HandleSelectionChange(d, line)
    /\ UNCHANGED <<text, openDocs, mtimeMs, smilesModuleCache, diagnosticCollection,
                   disposed>>

\* an open document is edited: the listener of the diagnostics provider
\* (diagnostics.js 121-123) and the listener of the tracker both run
DidChangeTextDocument(d, content) ==
    /\ DeliversEvent
    /\ d \in openDocs
    /\ content \in ContentsOf(d)
    /\ text' = [text EXCEPT ![d] = content]
    /\ ProviderUpdates(d, content)
    /\ IF TrackerDisposed THEN TrackerIdle ELSE TrackerDocumentChangeListener(d, content)
    /\ UNCHANGED <<openDocs, mtimeMs, smilesModuleCache, disposed>>

\* another editor, or none, becomes the active one
DidChangeActiveTextEditor(e, line) ==
    /\ DeliversEvent
    /\ e \in openDocs \cup {NoDoc}
    /\ line \in LinesOf(e)
    /\ IF TrackerDisposed THEN TrackerIdle ELSE EditorChangeListener(e, line)
    /\ UNCHANGED <<text, openDocs, mtimeMs, smilesModuleCache, diagnosticCollection,
                   disposed>>

\* LineTracker.getCurrentLineInfo (519-523)
GetCurrentLineInfo ==
    /\ DeliversEvent
    /\ \E o \in UpdateLineInfo(Tracker, currentDocument, HeldContent,
                               currentLine, parseResult) :
           /\ BuildsBecome(buildsSinceReset, o)
           /\ TrackerBecomes(currentDocument, currentLine, Fired(o))
           /\ UNCHANGED heldText
    /\ UNCHANGED <<text, openDocs, mtimeMs, smilesModuleCache, diagnosticCollection,
                   disposed>>

\* the smiles-js file is written to disk (created when it was not there)
SaveSmilesFile ==
    /\ DeliversEvent
    /\ mtimeMs < MaxMtime
    /\ mtimeMs' = mtimeMs + 1
    /\ TrackerIdle
    /\ UNCHANGED <<text, openDocs, smilesModuleCache, diagnosticCollection, disposed>>

\* the sequence s without its element i
RemoveAt(s, i) == [j \in 1..(Len(s) - 1) |-> IF j < i THEN s[j] ELSE s[j + 1]]

\* the first continuation of the microtask queue runs: the run goes on from
\* the await of line 394 to its end, or to the catch of line 507 when the
\* load threw; this._currentLine is read now
ResumeAfterLoad ==
    /\ Ready # {}
    /\ LET i == CHOOSE k \in Ready : pending[k].queued = 1
           run == pending[i]
           pubs == IF run.load.kind = "threw"
                   THEN <<Caught(currentLine, run.load.message)>>
                   ELSE SmilesFinish(run.load.module, run.exportName, run.lineText,
                                     currentLine)
           fired == IF TrackerDisposed THEN <<>> ELSE pubs
       IN /\ bus' = IF fired = <<>> THEN bus
                    ELSE [value |-> fired[Len(fired)], stale |-> i <= nSuperseded]
          /\ lastRun' = [phase |-> "resumed", pubs |-> Len(fired), switch |-> "no",
                         calls |-> IF run.load.kind = "threw" \/ ~run.load.module.loaded
                                   THEN <<>>
                                   ELSE <<Call("export",
                                               Export(run.load.module, run.exportName))>>]
          /\ pending' = RemoveAt([j \in DOMAIN pending |->
                                      IF pending[j].queued > 0
                                      THEN [pending[j] EXCEPT !.queued = @ - 1]
                                      ELSE pending[j]], i)
          /\ nSuperseded' = IF i <= nSuperseded THEN nSuperseded - 1
                            ELSE IF fired = <<>> THEN nSuperseded ELSE i - 1
    /\ UNCHANGED <<text, openDocs, mtimeMs, currentDocument, currentLine, heldText,
                   parseResult, smilesModuleCache, prevLoad, buildsSinceReset,
                   diagnosticCollection, disposed>>

\* import() of suspended run i settles with module (or rejects) and
\* _loadSmilesModule goes on from line 332 to its return: the module is
\* stored in the cache (335-336) and returned, or null is returned (339-342).
\* The continuation of the run, which fires the value, is queued behind the
\* continuations already in the microtask queue.  Several imports can
\* settle before the queue is emptied; the continuations that handlers
\* queued (cache hit, statSync threw) neither read nor write the cache and
\* have run by then
ImportSettled(i, module) ==
    /\ ~Draining /\ LoadsOf({"hit", "threw"}) = {}
    /\ i \in DOMAIN pending
    /\ pending[i].load.kind = "import"
    /\ smilesModuleCache' =
           IF ~module.loaded THEN smilesModuleCache
           ELSE CacheStore(smilesModuleCache, pending[i].load.cacheKey, module)
    /\ prevLoad' = IF i = Len(pending) /\ ~prevLoad.returned
                   THEN [prevLoad EXCEPT !.returned = TRUE, !.ok = module.loaded]
                   ELSE prevLoad
    /\ pending' = [pending EXCEPT ![i] = [@ EXCEPT !.load = [kind |-> "returned",
                                                             module |-> module],
                                                   !.queued = NextTicket(pending)]]
    /\ lastRun' = [phase |-> "loaded", pubs |-> 0, switch |-> "no",
                   calls |-> <<Call("import", IF module.loaded THEN "ok" ELSE "throw")>>]
    /\ UNCHANGED <<text, openDocs, mtimeMs, currentDocument, currentLine, heldText,
                   parseResult, nSuperseded, bus, buildsSinceReset,
                   diagnosticCollection, disposed>>

\* a document is opened (diagnostics.js 126-128): the host makes a new
\* TextDocument object for the file
DidOpenTextDocument(d, content) ==
    /\ DeliversEvent
    /\ d \in Docs \ openDocs
    /\ content \in ContentsOf(d)
    /\ openDocs' = openDocs \cup {d}
    /\ text' = [text EXCEPT ![d] = content]
    /\ ProviderUpdates(d, content)
    /\ TrackerIdle
    /\ UNCHANGED <<mtimeMs, smilesModuleCache, disposed>>

\* a document is closed (diagnostics.js 131-133); the tracker has no
\* listener for it and keeps the closed object it holds
DidCloseTextDocument(d) ==
    /\ DeliversEvent
    /\ d \in openDocs
    /\ openDocs' = openDocs \ {d}
    /\ diagnosticCollection' = IF ProviderDisposed THEN diagnosticCollection
                               ELSE CollectionDelete(diagnosticCollection, d)
    /\ heldText' = IF d = currentDocument /\ heldText = Live THEN text[d]
                   ELSE heldText
    /\ lastRun' = NoRun
    /\ UNCHANGED <<currentDocument, currentLine, parseResult, pending,
                   nSuperseded, bus, prevLoad, buildsSinceReset>>
    /\ UNCHANGED <<text, mtimeMs, smilesModuleCache, disposed>>

\* LineTracker.dispose (525-530): the listeners of the constructor and the
\* emitter are disposed.  The runs suspended on the await of line 394 stay
\* suspended
DisposeLineTracker ==
    /\ DeliversEvent
    /\ ~TrackerDisposed
    /\ disposed' = disposed \cup {"tracker"}
    /\ TrackerIdle
    /\ UNCHANGED <<text, openDocs, mtimeMs, smilesModuleCache, diagnosticCollection>>

\* the dispose of the diagnostics provider (diagnostics.js 140-145): the
\* disposed collection holds no entry, the listeners are disposed
DisposeDiagnosticsProvider ==
    /\ DeliversEvent
    /\ ~ProviderDisposed
    /\ disposed' = disposed \cup {"diagnostics"}
    /\ diagnosticCollection' = [d \in {} |-> <<>>]
    /\ TrackerIdle
    /\ UNCHANGED <<text, openDocs, mtimeMs, smilesModuleCache>>

----------------------------------------------------------------------------
(* extension.js and PreviewPanel (src/src/lineTracker.js lines 1037-1212)   *)

\* nothing has been posted yet
NoPost == [data |-> NoValue, stale |-> FALSE, fault |-> FALSE, disposed |-> FALSE]

\* the preview as the handlers of one step pass it on
Preview == [panel |-> previewPanel, updates |-> updates, posted |-> posted,
            live |-> webviewPanels]

\* lineInfo && lineInfo.smiles && !lineInfo.error (line 1102)
HasSmilesToRender(lineInfo) ==
    /\ lineInfo.kind = "result"
    /\ "smiles" \in DOMAIN lineInfo
    /\ Truthy(lineInfo.smiles)
    /\ ~Truthy(lineInfo.error)

\* PreviewPanel.update(lineInfo) up to the await of generateSVG, or to its
\* end when nothing is rendered (lines 1096-1119): every suspended update
\* has then been overtaken by a posted message
PanelUpdate(p, lineInfo) ==
    IF HasSmilesToRender(lineInfo)
    THEN [p EXCEPT !.updates = Append(p.updates,
                       [data |-> lineInfo, disposed |-> FALSE, superseded |-> FALSE])]
    ELSE [p EXCEPT !.updates = [i \in DOMAIN p.updates |->
                                    [p.updates[i] EXCEPT !.superseded = TRUE]],
                   !.posted = [data |-> lineInfo, stale |-> FALSE, fault |-> FALSE,
                               disposed |-> FALSE]]

\* the listener without the test of the setting
CursorChangeListener_IgnoresSetting(p, o) ==
    IF o.lastRun.pubs = 1 /\ p.panel = "open"
    THEN PanelUpdate(p, o.bus.value)
    ELSE p

\* the listener of lineTracker.onDidChangeCurrentLine (extension.js 86-91),
\* for the values fired by the run of outcome o
CursorChangeListener(p, o) ==
    IF o.lastRun.pubs = 1 /\ config.previewOnCursorMove /\ p.panel = "open"
    THEN PanelUpdate(p, o.bus.value)
    ELSE p

\* the panel is disposed and the variable previewPanel keeps the object
PanelDispose_KeepsReference(p) ==
    [p EXCEPT !.live = p.live - 1,
              !.updates = [i \in DOMAIN p.updates |->
                              [p.updates[i] EXCEPT !.disposed = TRUE]]]

\* the panel is disposed: PreviewPanel.dispose (1138-1152) and the callback
\* of extension.js 36-38; the suspended updates keep their disposed panel
PanelDispose(p) ==
    [p EXCEPT !.panel = "null",
              !.live = p.live - 1,
              !.updates = [i \in DOMAIN p.updates |->
                              [p.updates[i] EXCEPT !.disposed = TRUE]]]

\* the preview's variables take the values of p
PreviewBecomes(p) ==
    /\ Len(p.updates) <= MaxUpdates
    /\ previewPanel' = p.panel
    /\ updates' = p.updates
    /\ posted' = p.posted
    /\ webviewPanels' = p.live

\* the values the last step fired reach the listener of extension.js
Forward ==
    PreviewBecomes(CursorChangeListener(Preview,
        [lastRun |-> lastRun', bus |-> bus']))

\* extension.js does not run: its listeners are not registered
ExtensionIdle == UNCHANGED previewVars

\* autoOpenPreview (extension.js 65-76): the command it executes, if any
AutoOpenPreview(editor, panel) ==
    IF /\ config.autoOpenPreview
       /\ editor # NoDoc
       /\ languageId(editor) = "selfies"
       /\ panel = "null"
    THEN "showMolecule" ELSE "none"

\* the listener of onDidChangeActiveTextEditor of extension.js (79-83); it
\* runs after the listener of the tracker
ExtensionEditorChangeListener(e) ==
    /\ activeTextEditor' = e
    /\ Forward
    /\ command' = IF e # NoDoc /\ languageId(e) = "selfies"
                  THEN AutoOpenPreview(e, previewPanel') ELSE "none"
    /\ UNCHANGED <<config, engineOutcomes>>

\* a cursor move, an edit or a settled import with extension.js listening
WithExtension ==
    /\ command = "none"
    /\ Forward
    /\ UNCHANGED <<activeTextEditor, config, engineOutcomes, command>>

\* the handler of selfies.showMolecule (extension.js 27-48), invoked by the
\* user or through executeCommand; if (!previewPanel) previewPanel = new
\* PreviewPanel(...) (34-39, lineTracker.js 1038-1050), then reveal() (41)
ShowMoleculeCommand ==
    /\ DeliversEvent
    /\ command' = "none"
    /\ UNCHANGED <<activeTextEditor, config, engineOutcomes>>
    /\ IF activeTextEditor = NoDoc \/ languageId(activeTextEditor) # "selfies"
       THEN /\ TrackerIdle
            /\ UNCHANGED <<previewPanel, updates, posted, webviewPanels>>
       ELSE \E o \in UpdateLineInfo(Tracker, currentDocument, HeldContent,
                                    currentLine, parseResult) :
                /\ BuildsBecome(buildsSinceReset, o)
                /\ TrackerBecomes(currentDocument, currentLine, Fired(o))
                /\ UNCHANGED heldText
                /\ PreviewBecomes(CursorChangeListener(
                       IF Preview.panel = "null"
                       THEN [Preview EXCEPT !.panel = "open",
                                            !.live = Preview.live + 1]
                       ELSE Preview,
                       Fired(o)))
    /\ UNCHANGED <<text, openDocs, mtimeMs, smilesModuleCache, diagnosticCollection,
                   disposed>>

\* the handler of selfies.togglePreview (extension.js 54-61)
TogglePreviewCommand ==
    /\ DeliversEvent
    /\ command = "none"
    /\ IF previewPanel # "null"
       THEN /\ PreviewBecomes(PanelDispose(Preview))
            /\ command' = "none"
       ELSE /\ command' = "showMolecule"
            /\ UNCHANGED <<previewPanel, updates, posted, webviewPanels>>
    /\ TrackerIdle
    /\ UNCHANGED <<activeTextEditor, config, engineOutcomes>>
    /\ UNCHANGED <<text, openDocs, mtimeMs, smilesModuleCache, diagnosticCollection,
                   disposed>>

\* the user closes the panel: onDidDispose fires (1066-1068, extension.js 36-38)
PanelClosed ==
    /\ DeliversEvent
    /\ command = "none"
    /\ previewPanel # "null"
    /\ PreviewBecomes(PanelDispose(Preview))
    /\ TrackerIdle
    /\ UNCHANGED <<activeTextEditor, config, engineOutcomes, command>>
    /\ UNCHANGED <<text, openDocs, mtimeMs, smilesModuleCache, diagnosticCollection,
                   disposed>>

\* lineInfo after generateSVG returned or threw (1103-1112)
Rendered(lineInfo, outcome) ==
    IF outcome = "ok" THEN lineInfo @@ [svg |-> "SVG"]
    ELSE lineInfo @@ [rdkitError |-> "render failed"]

\* generateSVG of a suspended update settles and the update hands its
\* message to the panel without looking at the panel again
GenerateSvgSettled_PostsBlindly(i, outcome) ==
    /\ DeliversEvent
    /\ command = "none"
    /\ i \in DOMAIN updates
    /\ posted' = [data |-> Rendered(updates[i].data, outcome),
                  stale |-> updates[i].superseded,
                  fault |-> FALSE,
                  disposed |-> updates[i].disposed]
    /\ updates' = RemoveAt([j \in DOMAIN updates |->
                               IF j < i /\ ~updates[i].disposed
                               THEN [updates[j] EXCEPT !.superseded = TRUE]
                               ELSE updates[j]], i)
    /\ TrackerIdle
    /\ UNCHANGED <<activeTextEditor, config, engineOutcomes, previewPanel, command,
                   webviewPanels>>
    /\ UNCHANGED <<text, openDocs, mtimeMs, smilesModuleCache, diagnosticCollection,
                   disposed>>

\* generateSVG of suspended update i settles and update goes on to
\* this._panel.webview.postMessage (1115-1118).  The getter webview of a
\* disposed WebviewPanel throws ('Webview is disposed'): the update of a
\* disposed panel posts nothing and its promise is rejected
GenerateSvgSettled(i, outcome) ==
    /\ DeliversEvent
    /\ command = "none"
    /\ i \in DOMAIN updates
    /\ LET accessThrows == updates[i].disposed
       IN posted' = [data |-> Rendered(updates[i].data, outcome),
                     stale |-> updates[i].superseded,
                     fault |-> accessThrows,
                     disposed |-> updates[i].disposed /\ ~accessThrows]
    /\ updates' = RemoveAt([j \in DOMAIN updates |->
                               IF j < i /\ ~updates[i].disposed
                               THEN [updates[j] EXCEPT !.superseded = TRUE]
                               ELSE updates[j]], i)
    /\ TrackerIdle
    /\ UNCHANGED <<activeTextEditor, config, engineOutcomes, previewPanel, command,
                   webviewPanels>>
    /\ UNCHANGED <<text, openDocs, mtimeMs, smilesModuleCache, diagnosticCollection,
                   disposed>>

----------------------------------------------------------------------------
(* Initial states: createDiagnosticsProvider() and new LineTracker() have   *)
(* run, as activate() calls them                                           *)

\* the host: which documents are open, with their contents on disk, after
\* vscode.workspace.textDocuments.forEach(updateDiagnostics) (line 136)
InitHost(open) ==
    /\ openDocs = open
    /\ text = [d \in Docs |-> InitialContent(d)]
    /\ mtimeMs \in IF "m" \in open THEN {NoFile, 1} ELSE {1}
    /\ diagnosticCollection =
           [d \in {x \in open : languageId(x) = "selfies"} |->
               BuildDiagnostics(InitialContent(d))]
    /\ disposed = {}

\* the tracker as lines 221-223 and 242 of the constructor leave it
NewTracker ==
    [pending |-> <<>>, nSuperseded |-> 0,
     bus |-> [value |-> NoValue, stale |-> FALSE],
     prevLoad |-> NoLoad, cache |-> << >>, mtime |-> 1]

\* the constructor of LineTracker (217-268) with active editor e, the
\* cursor on the given line
InitTracker(e, line) ==
    /\ smilesModuleCache = NewTracker.cache
    /\ \E o \in IF e # NoDoc /\ IsSupportedFile(e)
                THEN UpdateLineInfo([NewTracker EXCEPT !.mtime = mtimeMs], e,
                                    InitialContent(e), line, NoParse)
                ELSE {NotRun(NewTracker, NoParse)} :
           /\ currentDocument = IF e # NoDoc /\ IsSupportedFile(e) THEN e ELSE NoDoc
           /\ currentLine = IF e # NoDoc /\ IsSupportedFile(e) THEN line ELSE NoLine
           /\ parseResult = o.parseResult
           /\ heldText = Live
           /\ pending = o.pending
           /\ nSuperseded = o.nSuperseded
           /\ bus = o.bus
           /\ prevLoad = o.prevLoad
           /\ lastRun = o.lastRun
           /\ buildsSinceReset = Builds(o)

\* the documents of a session: two declarative documents, or a smiles-js
\* module, each time with an unsupported document
Sessions == {{"a", "b", "n"}, {"m", "n"}}

\* the documents of a session are open and any of them, or none, is in the
\* active editor
\* the state of extension.js before activate() has registered anything
InitExtensionIdle ==
    /\ activeTextEditor = NoDoc
    /\ config = [autoOpenPreview |-> TRUE, previewOnCursorMove |-> TRUE]
    /\ previewPanel = "null"
    /\ command = "none"
    /\ updates = <<>>
    /\ posted = NoPost
    /\ webviewPanels = 0

\* the tracker and the diagnostics provider on their own
Init ==
    /\ \E open \in Sessions : InitHost(open)
    /\ engineOutcomes = EngineOutcomes
    /\ \E e \in openDocs \cup {NoDoc} :
           \E line \in 0..(Len(LinesOfContent(InitialContent(e))) - 1) : InitTracker(e, line)
    /\ InitExtensionIdle

Next ==
    \/ \E d \in Docs : \E line \in 0..1 :
           DidChangeTextEditorSelection(d, line) /\ ExtensionIdle
    \/ \E d \in Docs : \E content \in ContentsOf(d) :
           DidChangeTextDocument(d, content) /\ ExtensionIdle
    \/ \E e \in Docs \cup {NoDoc} : \E line \in 0..1 :
           DidChangeActiveTextEditor(e, line) /\ ExtensionIdle
    \/ GetCurrentLineInfo /\ ExtensionIdle
    \/ SaveSmilesFile /\ ExtensionIdle
    \/ \E i \in 1..MaxPending : \E module \in Modules \cup {ImportFailed} :
           ImportSettled(i, module) /\ ExtensionIdle
    \/ ResumeAfterLoad /\ ExtensionIdle

Spec == Init /\ [][Next]_vars

\* the sessions in which the module file is never saved: the listeners of the
\* tracker and the continuations of its runs, without SaveSmilesFile
NextEdit ==
    \/ \E d \in Docs : \E line \in 0..1 :
           DidChangeTextEditorSelection(d, line) /\ ExtensionIdle
    \/ \E d \in Docs : \E content \in ContentsOf(d) :
           DidChangeTextDocument(d, content) /\ ExtensionIdle
    \/ \E e \in Docs \cup {NoDoc} : \E line \in 0..1 :
           DidChangeActiveTextEditor(e, line) /\ ExtensionIdle
    \/ GetCurrentLineInfo /\ ExtensionIdle
    \/ \E i \in 1..MaxPending : \E module \in Modules \cup {ImportFailed} :
           ImportSettled(i, module) /\ ExtensionIdle
    \/ ResumeAfterLoad /\ ExtensionIdle

SpecEdit == Init /\ [][NextEdit]_vars

\* the sessions in which no document is edited: the module file changes on
\* disk only, by SaveSmilesFile
NextSave ==
    \/ \E d \in Docs : \E line \in 0..1 :
           DidChangeTextEditorSelection(d, line) /\ ExtensionIdle
    \/ \E e \in Docs \cup {NoDoc} : \E line \in 0..1 :
           DidChangeActiveTextEditor(e, line) /\ ExtensionIdle
    \/ GetCurrentLineInfo /\ ExtensionIdle
    \/ SaveSmilesFile /\ ExtensionIdle
    \/ \E i \in 1..MaxPending : \E module \in Modules \cup {ImportFailed} :
           ImportSettled(i, module) /\ ExtensionIdle
    \/ ResumeAfterLoad /\ ExtensionIdle

SpecSave == Init /\ [][NextSave]_vars

\* the diagnostics provider alone: no editor is active and the cursor does
\* not move, documents are opened, edited and closed
InitDiag ==
    /\ \E open \in SUBSET Docs : InitHost(open)
    /\ engineOutcomes = EngineOutcomes
    /\ InitTracker(NoDoc, 0)
    /\ InitExtensionIdle

NextDiag ==
    \/ \E d \in Docs : \E content \in ContentsOf(d) :
           DidOpenTextDocument(d, content) /\ ExtensionIdle
    \/ \E d \in Docs : \E content \in ContentsOf(d) :
           DidChangeTextDocument(d, content) /\ ExtensionIdle
    \/ \E d \in Docs : DidCloseTextDocument(d) /\ ExtensionIdle

SpecDiag == InitDiag /\ [][NextDiag]_vars

\* the settings a user can have
Configs == [autoOpenPreview : BOOLEAN, previewOnCursorMove : BOOLEAN]

\* a session with the preview has one document open, a declarative one

\* activate() (extension.js 10-102) has run: the diagnostics provider, the
\* tracker, the commands and the listeners exist, and autoOpenPreview() of
\* line 94 has executed its command or not.  In the sessions with the
\* preview the calls of decode, getMolecularWeight and getFormula return,
\* and the call of resolve returns a string or throws an error that has a
\* message
InitPreview ==
    /\ InitHost({"b"})
    /\ engineOutcomes = {o \in EngineOutcomes :
                             o[1] \in {"ok", "throw"} /\ o[2] = "ok"
                                 /\ o[3] = "ok" /\ o[4] = "ok"}
    /\ config \in Configs
    /\ \E e \in openDocs \cup {NoDoc} :
           /\ \E line \in 0..(Len(LinesOfContent(InitialContent(e))) - 1) :
                  InitTracker(e, line)
           /\ activeTextEditor = e
           /\ command = AutoOpenPreview(e, "null")
    /\ previewPanel = "null"
    /\ updates = <<>>
    /\ posted = NoPost
    /\ webviewPanels = 0

\* the whole extension: cursor moves, edits and editor changes with the
\* listeners of extension.js, the two commands, the panel and its renderer
NextPreview ==
    \/ \E d \in Docs : \E line \in 0..1 :
           DidChangeTextEditorSelection(d, line) /\ WithExtension
    \/ \E d \in Docs : \E content \in ContentsOf(d) :
           DidChangeTextDocument(d, content) /\ WithExtension
    \/ \E e \in Docs \cup {NoDoc} : \E line \in 0..1 :
           /\ command = "none"
           /\ DidChangeActiveTextEditor(e, line)
          
           /\ ExtensionEditorChangeListener(e)
    \/ GetCurrentLineInfo /\ WithExtension
    \/ ShowMoleculeCommand
    \/ TogglePreviewCommand
    \/ PanelClosed
    \/ \E i \in 1..MaxUpdates : \E outcome \in CallOutcomes :
           GenerateSvgSettled(i, outcome)

SpecPreview == InitPreview /\ [][NextPreview]_vars

\* activate() has run in a window without a declarative document: a
\* smiles-js module and an unsupported document are open
InitModulePreview ==
    /\ InitHost({"m", "n"})
    /\ engineOutcomes = EngineOutcomes
    /\ config \in Configs
    /\ \E e \in openDocs \cup {NoDoc} :
           /\ \E line \in 0..(Len(LinesOfContent(InitialContent(e))) - 1) :
                  InitTracker(e, line)
           /\ activeTextEditor = e
           /\ command = AutoOpenPreview(e, "null")
    /\ previewPanel = "null"
    /\ updates = <<>>
    /\ posted = NoPost
    /\ webviewPanels = 0

\* the whole extension where showMolecule opens no panel (extension.js
\* 29-32): cursor moves, edits and editor changes, the imports of the
\* module and the two commands
NextModulePreview ==
    \/ \E d \in Docs : \E line \in 0..1 :
           DidChangeTextEditorSelection(d, line) /\ WithExtension
    \/ \E d \in Docs : \E content \in ContentsOf(d) :
           DidChangeTextDocument(d, content) /\ WithExtension
    \/ \E e \in Docs \cup {NoDoc} : \E line \in 0..1 :
           /\ command = "none"
           /\ DidChangeActiveTextEditor(e, line)
           /\ ExtensionEditorChangeListener(e)
    \/ \E i \in 1..MaxPending : \E module \in Modules \cup {ImportFailed} :
           ImportSettled(i, module) /\ WithExtension
    \/ ResumeAfterLoad /\ WithExtension
    \/ GetCurrentLineInfo /\ WithExtension
    \/ ShowMoleculeCommand
    \/ TogglePreviewCommand

SpecModulePreview == InitModulePreview /\ [][NextModulePreview]_vars

\* the tracker in a window where the user moves between the editors of
\* documents of every kind, without editing them: a declarative, an
\* executable-module and an unsupported document are open side by side
InitSwitch ==
    /\ InitHost({"b", "m", "n"})
    /\ engineOutcomes = EngineOutcomes
    /\ \E e \in openDocs \cup {NoDoc} :
           \E line \in 0..(Len(LinesOfContent(InitialContent(e))) - 1) : InitTracker(e, line)
    /\ InitExtensionIdle

NextSwitch ==
    \/ \E d \in Docs : \E line \in 0..1 :
           DidChangeTextEditorSelection(d, line) /\ ExtensionIdle
    \/ \E e \in Docs \cup {NoDoc} : \E line \in 0..1 :
           DidChangeActiveTextEditor(e, line) /\ ExtensionIdle
    \/ \E i \in 1..MaxPending : \E module \in Modules \cup {ImportFailed} :
           ImportSettled(i, module) /\ ExtensionIdle
    \/ ResumeAfterLoad /\ ExtensionIdle

SpecSwitch == InitSwitch /\ [][NextSwitch]_vars

\* the tracker and the diagnostics provider from their creation to their
\* disposal: documents are edited and closed, the cursor moves, and either
\* object can be disposed at any time (context.subscriptions, extension.js
\* 15 and 19).  Two declarative documents are open at the start, or a
\* smiles-js module
InitLifecycle ==
    /\ \E open \in {{"a", "b"}, {"m"}} : InitHost(open)
    /\ engineOutcomes = EngineOutcomes
    /\ \E e \in openDocs \cup {NoDoc} :
           \E line \in 0..(Len(LinesOfContent(InitialContent(e))) - 1) : InitTracker(e, line)
    /\ InitExtensionIdle

NextLifecycle ==
    \/ \E d \in Docs : \E line \in 0..1 :
           DidChangeTextEditorSelection(d, line) /\ ExtensionIdle
    \/ \E d \in Docs : \E content \in ContentsOf(d) :
           DidChangeTextDocument(d, content) /\ ExtensionIdle
    \/ \E d \in Docs : DidCloseTextDocument(d) /\ ExtensionIdle
    \/ \E e \in Docs \cup {NoDoc} : \E line \in 0..1 :
           DidChangeActiveTextEditor(e, line) /\ ExtensionIdle
    \/ \E i \in 1..MaxPending : \E module \in Modules \cup {ImportFailed} :
           ImportSettled(i, module) /\ ExtensionIdle
    \/ ResumeAfterLoad /\ ExtensionIdle
    \/ DisposeLineTracker /\ ExtensionIdle
    \/ DisposeDiagnosticsProvider /\ ExtensionIdle

SpecLifecycle == InitLifecycle /\ [][NextLifecycle]_vars

\* the tracker and the provider in a window with two declarative documents
\* that the user edits, closes and opens again, as the active editor or in
\* the background
InitReopen ==
    /\ InitHost({"a", "b"})
    /\ engineOutcomes = EngineOutcomes
    /\ \E e \in openDocs \cup {NoDoc} :
           \E line \in 0..(Len(LinesOfContent(InitialContent(e))) - 1) : InitTracker(e, line)
    /\ InitExtensionIdle

NextReopen ==
    \/ \E d \in Docs : \E line \in 0..1 :
           DidChangeTextEditorSelection(d, line) /\ ExtensionIdle
    \/ \E d \in Docs : \E content \in ContentsOf(d) :
           DidChangeTextDocument(d, content) /\ ExtensionIdle
    \/ \E d \in {"a", "b"} : \E content \in ContentsOf(d) :
           DidOpenTextDocument(d, content) /\ ExtensionIdle
    \/ \E d \in Docs : DidCloseTextDocument(d) /\ ExtensionIdle
    \/ \E e \in Docs \cup {NoDoc} : \E line \in 0..1 :
           DidChangeActiveTextEditor(e, line) /\ ExtensionIdle

SpecReopen == InitReopen /\ [][NextReopen]_vars

----------------------------------------------------------------------------
(* Properties *)

\* the documents that take the executable-module path
SmilesJsDocs == {d \in Docs : EndsWithSmilesJs(fileName(d))}

\* the tracked line exists and its trimmed text is empty or starts with the
\* comment marker of the tracked document's format
TrackedLineIsBlankOrComment ==
    /\ currentDocument # NoDoc
    /\ currentLine + 1 \in DOMAIN LinesOfContent(text[currentDocument])
    /\ LET lineText == LineText(text[currentDocument], currentLine)
       IN \/ IsEmptyLine(lineText)
          \/ IF EndsWithSmilesJs(fileName(currentDocument))
             THEN StartsWith(lineText, Slashes) \/ StartsWith(lineText, SlashStar)
             ELSE StartsWith(lineText, Hash)

\* C1: latest-wins.  A value computed for an earlier triggering event is
\* never fired after the value of a later event, so that once every run has
\* completed the bus holds the result of the most recent event.
LatestWins == ~bus.stale

\* C2: a run on a tracked line that is blank or a comment fires null, never
\* a result carrying an error, whatever the engine does.
BlankLineYieldsNull ==
    (lastRun.phase = "completed" /\ TrackedLineIsBlankOrComment)
        => bus.value = Null

\* C3: the memoized resolution, when present, was built from the current
\* text of the currently tracked document: a resolution that is present
\* after a step belongs to the tracked document, and when the step changed
\* the text of the tracked document, switched the tracked document or built
\* the resolution, it was built from the text the document has after the
\* step.
ParseResultIsCurrent ==
    [][parseResult'.present =>
           /\ parseResult'.doc = currentDocument'
           /\ ( \/ \E content \in ContentsOf(currentDocument) :
                      DidChangeTextDocument(currentDocument, content)
                \/ currentDocument' # currentDocument
                \/ parseResult' # parseResult )
              => parseResult'.content = text'[currentDocument']]_vars

\* C4: the diagnostics stored for an open declarative document are exactly
\* the records derived from its latest text.
DiagnosticsMatchLatestText ==
    \A d \in openDocs :
        languageId(d) = "selfies" =>
            /\ d \in DOMAIN diagnosticCollection
            /\ diagnosticCollection[d] = BuildDiagnostics(text[d])

\* a document edited from a text with three findings to a text with none
DiagnosticsReplaced ==
    /\ "a" \in openDocs
    /\ InitialContent("a") = "CS2"
    /\ text["a"] = "CS1"
    /\ "a" \in DOMAIN diagnosticCollection
    /\ diagnosticCollection["a"] = <<>>

\* C5: no closed document has an entry in the diagnostics store.
ClosedHasNoDiagnostics ==
    \A d \in Docs \ openDocs : d \notin DOMAIN diagnosticCollection

\* a declarative document that was open with findings and has been closed
ClosedAfterFindings ==
    /\ "a" \notin openDocs
    /\ text["a"] = "CS3"
    /\ BuildDiagnostics(text["a"]) # <<>>

\* the step calls _loadSmilesModule and the call executes the module (it
\* suspends on import()), although the call made before it was for the same
\* file and modification time and has returned
ExecutedAgain ==
    /\ lastRun'.phase = "suspended"
    /\ Len(pending') = Len(pending) + 1
    /\ pending'[Len(pending')].load.kind = "import"
    /\ prevLoad.returned
    /\ prevLoad.key = pending'[Len(pending')].load.cacheKey

\* a change of the modification time leaves no cache entry and no load in
\* flight under the new key, so the next load executes the module
ChangeForcesExecution ==
    mtimeMs' # mtimeMs =>
        \A d \in SmilesJsDocs :
            /\ CacheKey(d, mtimeMs') \notin DOMAIN smilesModuleCache'
            /\ \A i \in DOMAIN pending' :
                   pending'[i].load.kind = "import" =>
                       pending'[i].load.cacheKey # CacheKey(d, mtimeMs')

\* C6: the second of two loads in succession of an unchanged file never
\* executes the module, and a load after a change of the modification time
\* always does.
LoadTwiceExecutesOnce ==
    [][~ExecutedAgain /\ ChangeForcesExecution]_vars

\* C7: the loaded-module cache holds at most one entry.
CacheHoldsAtMostOne == Cardinality(DOMAIN smilesModuleCache) <= 1

\* an entry stored under the key of the saved file while an older load is
\* still in flight
StoredWhileLoading ==
    /\ lastRun.phase = "loaded"
    /\ Len(pending) >= 1
    /\ DOMAIN smilesModuleCache = {CacheKey("m", 2)}

\* C8: at most one resolution run is in progress at any time for the same
\* document.
AtMostOneRunInProgress == Len(pending) <= 1

\* C9: every run fires exactly one value: none while it is suspended, one
\* when it completes, and a step that starts no run fires nothing.
ExactlyOncePerRun ==
    /\ lastRun.phase \in {"completed", "resumed"} => lastRun.pubs = 1
    /\ lastRun.phase \in {"suspended", "loaded", "none"} => lastRun.pubs = 0

\* a run resumed after a failed module load has fired null
FiredAfterFailedLoad ==
    /\ lastRun.phase = "resumed"
    /\ prevLoad.returned
    /\ ~prevLoad.ok
    /\ lastRun.pubs = 1
    /\ bus.value = Null

\* C10: a change of the active view from one supported document to another
\* starts a resolution, which fires its value before the listener returns or
\* is suspended on the module load, also when the line number is unchanged.
SwitchTriggersResolution ==
    lastRun.switch # "no" =>
        \/ lastRun.phase = "completed" /\ lastRun.pubs = 1
        \/ lastRun.phase = "suspended" /\ Len(pending) >= 1

\* a switch to another document on the same line number has fired a value
SwitchedOnSameLine ==
    /\ lastRun.switch = "sameLine"
    /\ lastRun.phase = "completed"
    /\ lastRun.pubs = 1

----------------------------------------------------------------------------
(* Properties of the engine calls of a run *)

\* the last step made the call fn with the given outcome
Called(fn, outcome) ==
    \E i \in DOMAIN lastRun.calls : lastRun.calls[i] = Call(fn, outcome)

\* the last step called fn
CalledAny(fn) ==
    \E i \in DOMAIN lastRun.calls : lastRun.calls[i][1] = fn

\* the definition on the tracked line, in the memoized resolution
TrackedDefinition ==
    FindDefinition(loadWithImports(parseResult.content).definitions, currentLine).def

\* C11: when resolve throws or returns no encoded form, the value fired has
\* a non-null error and carries the name and the expression text of the
\* definition on the tracked line.
ResolveFailureKeepsName ==
    (\/ Called("resolve", "throw")
     \/ Called("resolve", "throwEmpty")
     \/ Called("resolve", "falsy")) =>
        /\ lastRun.pubs = 1
        /\ bus.value.kind = "result"
        /\ Truthy(bus.value.error)
        /\ bus.value.error =
               (IF Called("resolve", "throw") THEN ResolveMessage
                ELSE "Could not resolve definition")
        /\ "name" \in DOMAIN bus.value
        /\ bus.value.name = TrackedDefinition.name
        /\ bus.value.expression = ExpressionOf(TrackedDefinition).text

\* resolve threw for [B] = [A]repeat([C], 2)
ResolveThrewOnRepeat ==
    /\ Called("resolve", "throw")
    /\ bus.value.name = <<"B">>
    /\ bus.value.expression =
           <<"[", "A", "]", "r", "e", "p", "e", "a", "t", "(", "[", "C", "]", ",", " ", "2", ")">>
    /\ bus.value.error = ResolveMessage

\* C12: when resolve succeeds and decode throws, the value fired keeps the
\* encoded form, has a null smiles and has the decode failure as error.
DecodeFailureKeepsSelfies ==
    (Called("decode", "throw") \/ Called("decode", "throwEmpty")) =>
        /\ lastRun.pubs = 1
        /\ bus.value.kind = "result"
        /\ bus.value.selfies = "SELFIES"
        /\ bus.value.smiles = "null"
        /\ bus.value.error =
               (IF Called("decode", "throw") THEN DecodeMessage ELSE "")

\* decode threw after resolve returned the encoded form
DecodeThrew ==
    /\ Called("resolve", "ok")
    /\ Called("decode", "throw")
    /\ bus.value.selfies = "SELFIES"

\* C13: in every fired result of the declarative path whose decode
\* succeeded, molecularWeight and formula are both null or both non-null.
MassAndFormulaTogether ==
    (/\ bus.value.kind = "result"
     /\ "smiles" \in DOMAIN bus.value
     /\ bus.value.selfies # "null"
     /\ bus.value.smiles # "null") =>
        (bus.value.molecularWeight = "null" <=> bus.value.formula = "null")

\* C14: a throw of getMolecularWeight or getFormula sets no
\* error and does not keep the result from being fired with its encoded
\* form and its smiles populated and a null error.
PropertyFailureLeavesCleanResult ==
    (Called("getMolecularWeight", "throw") \/ Called("getFormula", "throw")) =>
        /\ lastRun.pubs = 1
        /\ bus.value.kind = "result"
        /\ bus.value.selfies = "SELFIES"
        /\ bus.value.smiles = "SMILES"
        /\ bus.value.error = "null"

\* a field of a fired value is absent or null
NullOrAbsent(value, field) ==
    field \notin DOMAIN value \/ value[field] = "null"

\* C15: a fired result without smiles has neither molecularWeight nor
\* formula, and no property is computed after decode threw.
PropertiesOnlyAfterDecode ==
    /\ (bus.value.kind = "result" /\ NullOrAbsent(bus.value, "smiles")) =>
           /\ NullOrAbsent(bus.value, "molecularWeight")
           /\ NullOrAbsent(bus.value, "formula")
    /\ (Called("decode", "throw") \/ Called("decode", "throwEmpty")) =>
           /\ ~CalledAny("getMolecularWeight")
           /\ ~CalledAny("getFormula")

----------------------------------------------------------------------------
(* Properties of the diagnostics provider *)

\* C16: when loadWithImports throws in a run of updateDiagnostics, the
\* diagnostics stored for the document are exactly one record, with range
\* (0,0)-(0,1), severity Error and a message carrying the failure message.
EngineFailureGivesOneRecord ==
    \A d \in openDocs :
        (languageId(d) = "selfies" /\ loadWithImports(text[d]).threw) =>
            /\ d \in DOMAIN diagnosticCollection
            /\ Len(diagnosticCollection[d]) = 1
            /\ diagnosticCollection[d][1].range =
                   [startLine |-> 0, startCol |-> 0, endLine |-> 0, endCol |-> 1]
            /\ diagnosticCollection[d][1].severity = "Error"
            /\ diagnosticCollection[d][1].message[2] = loadWithImports(text[d]).message

\* the engine threw for a document edited from a text with three findings
EngineThrewAfterFindings ==
    /\ "a" \in openDocs
    /\ Len(BuildDiagnostics(InitialContent("a"))) = 3
    /\ text["a"] = "CS3"
    /\ Len(diagnosticCollection["a"]) = 1

\* C17: cursor moves and changes of the active editor leave the diagnostics
\* store unchanged; it changes only with a document open, change or close,
\* or with the disposal of the provider.
OnlyDocumentEventsChangeDiagnostics ==
    [][/\ (currentLine' # currentLine \/ currentDocument' # currentDocument)
           => diagnosticCollection' = diagnosticCollection
       /\ diagnosticCollection' # diagnosticCollection
           => \/ text' # text
              \/ openDocs' # openDocs
              \/ ProviderDisposed' # ProviderDisposed]_vars

\* the active editor changed to another document while findings are stored
SwitchedWithFindings ==
    /\ lastRun.switch # "no"
    /\ "a" \in DOMAIN diagnosticCollection
    /\ diagnosticCollection["a"] # <<>>

\* C18, as claimed: between two resets of _parseResult the runs of
\* _updateLineInfo call loadWithImports at most once, however many cursor
\* moves there are.
BuildsAtMostOnce == buildsSinceReset <= 1

\* C18, amended: between two resets of _parseResult the runs of
\* _updateLineInfo call loadWithImports at most once when the call returns;
\* a call that throws memoizes nothing and the next run calls again.
BuildsOnceUnlessThrown ==
    /\ parseResult.present => buildsSinceReset <= 1
    /\ buildsSinceReset >= 2 =>
           /\ currentDocument # NoDoc
           /\ loadWithImports(text[currentDocument]).threw

\* a run served by the resolution an earlier run built
ServedFromMemo ==
    /\ buildsSinceReset = 1
    /\ parseResult.present
    /\ lastRun.phase = "completed"
    /\ lastRun.pubs = 1
    /\ ~CalledAny("loadWithImports")

\* a step that leaves the tracker without a tracked document fires nothing
\* and calls neither the engine nor the module loader
UntrackedStepIsSilent ==
    /\ lastRun'.pubs = 0
    /\ lastRun'.calls = <<>>
    /\ bus' = bus
    /\ pending' = pending
    /\ smilesModuleCache' = smilesModuleCache

\* C19, as claimed: while no document is tracked every handler is a no-op:
\* nothing is fired, nothing is called, and the tracked document, the tracked
\* line and the memoized resolution are unchanged.
NoOpBeforeTracking ==
    [][(currentDocument = NoDoc /\ currentDocument' = NoDoc) =>
           /\ UntrackedStepIsSilent
           /\ UNCHANGED <<currentLine, parseResult>>]_vars

\* C19, amended: while no document is tracked nothing is fired, nothing is
\* called, and the tracked document and the memoized resolution are
\* unchanged; a cursor event of a supported document still records its line.
NoOpBeforeTrackingButLine ==
    [][(currentDocument = NoDoc /\ currentDocument' = NoDoc) =>
           /\ UntrackedStepIsSilent
           /\ UNCHANGED parseResult]_vars

\* a cursor event recorded its line while no document is tracked
LineRecordedBeforeTracking ==
    /\ currentDocument = NoDoc
    /\ currentLine # NoLine
    /\ bus.value = NoValue
    /\ ~parseResult.present

\* the severities the claim gives to the entries of result.errors of a text
ClaimedSeverities(content) ==
    CASE content = "CS2" -> <<"Error", "Hint">>
      [] content = "CK1" -> <<"Error", "Error", "Error", "Error", "Warning">>
      [] content = "CK2" -> <<"Warning", "Information", "Hint", "Error", "Error",
                              "Information", "Error">>
      [] OTHER -> <<>>

\* C20: the severity of the diagnostic of an entry of result.errors is a
\* function of its kind (type, or severity when type is missing): error,
\* syntax, undefined, circular, redefinition and every unknown or missing
\* kind give Error, chemistry and warning give Warning, info gives
\* Information, hint gives Hint.
SeverityFollowsKind ==
    \A d \in openDocs :
        (languageId(d) = "selfies" /\ ~loadWithImports(text[d]).threw) =>
            /\ d \in DOMAIN diagnosticCollection
            /\ Len(diagnosticCollection[d]) >= Len(loadWithImports(text[d]).errors)
            /\ [i \in 1..Len(loadWithImports(text[d]).errors) |->
                    diagnosticCollection[d][i].severity] = ClaimedSeverities(text[d])

\* diagnostics stored for entries of unknown and missing kinds, next to
\* entries of every other severity
AllSeveritiesStored ==
    /\ "b" \in openDocs
    /\ text["b"] = "CK2"
    /\ {diagnosticCollection["b"][i].severity : i \in 1..7} =
           {"Error", "Warning", "Information", "Hint"}

----------------------------------------------------------------------------
(* Properties of the mapping of findings and lines *)

\* the range the claim gives to an engine entry that has a line and a column
ClaimedRange(e) ==
    [startLine |-> e.line - 1, startCol |-> e.column - 1, endLine |-> e.line - 1,
     endCol |-> IF "endColumn" \in DOMAIN e THEN e.endColumn - 1 ELSE e.column]

\* C21: a run stores one record per entry of result.errors and then one per
\* entry of result.warnings, in engine order, and the range of the record of
\* an entry at 1-based (line, column) starts at (line-1, column-1) and ends
\* on the same line at endColumn-1, or one column further when endColumn is
\* absent.
OneRecordPerFinding ==
    \A d \in openDocs :
        (languageId(d) = "selfies" /\ ~loadWithImports(text[d]).threw) =>
            LET errors == loadWithImports(text[d]).errors
                warnings == loadWithImports(text[d]).warnings
                all == errors \o warnings
                stored == diagnosticCollection[d]
            IN /\ Len(stored) = Len(errors) + Len(warnings)
               /\ \A i \in DOMAIN all :
                      /\ stored[i].message = all[i].message
                      /\ ("line" \in DOMAIN all[i] /\ "column" \in DOMAIN all[i])
                             => stored[i].range = ClaimedRange(all[i])
               /\ \A i \in DOMAIN warnings :
                      stored[Len(errors) + i].severity = "Warning"

\* two errors and a warning stored as three records, the first with its end
\* column and the last one column wide
ThreeFindingsStored ==
    /\ "a" \in openDocs
    /\ text["a"] = "CS2"
    /\ Len(diagnosticCollection["a"]) = 3
    /\ diagnosticCollection["a"][1].range =
           [startLine |-> 1, startCol |-> 6, endLine |-> 1, endCol |-> 9]
    /\ diagnosticCollection["a"][3].range =
           [startLine |-> 1, startCol |-> 0, endLine |-> 1, endCol |-> 1]

\* line n+1.
LineMappingRoundTrips ==
    /\ \A n \in 0..3 :
           /\ ToDefinitionLine(n) = n + 1
           /\ ToEditorLine(ToDefinitionLine(n)) = n
           /\ ToDefinitionLine(ToEditorLine(n + 1)) = n + 1
    /\ CalledAny("resolve") =>
           /\ TrackedDefinition.line = bus.value.line + 1
           /\ TrackedDefinition.name = bus.value.name
    /\ \A d \in DOMAIN diagnosticCollection :
           (d \in openDocs /\ ~loadWithImports(text[d]).threw) =>
               \A i \in DOMAIN loadWithImports(text[d]).errors :
                   "line" \in DOMAIN loadWithImports(text[d]).errors[i] =>
                       diagnosticCollection[d][i].range.startLine + 1 =
                           loadWithImports(text[d]).errors[i].line

\* the definition of engine line 2 resolved on editor line 1, where the
\* finding of engine line 2 is shown
ResolvedWhereFindingIsShown ==
    /\ CalledAny("resolve")
    /\ currentDocument = "a"
    /\ bus.value.name = <<"B">>
    /\ bus.value.line = 1
    /\ "a" \in DOMAIN diagnosticCollection
    /\ diagnosticCollection["a"] # <<>>
    /\ diagnosticCollection["a"][1].range.startLine = 1

----------------------------------------------------------------------------
(* Properties of the values fired for lines with nothing to show *)

\* the tracked line of the tracked document exists and is neither blank nor
\* a comment
TrackedLineHasText ==
    /\ currentDocument # NoDoc
    /\ currentLine + 1 \in DOMAIN LinesOfContent(text[currentDocument])
    /\ ~TrackedLineIsBlankOrComment

\* C24: on a declarative document, a run on a non-blank line for which the
\* resolution has no definition fires null, not an error result.
MissingDefinitionYieldsNull ==
    (/\ lastRun.phase = "completed"
     /\ TrackedLineHasText
     /\ ~EndsWithSmilesJs(fileName(currentDocument))
     /\ parseResult.present
     /\ ~FindDefinition(loadWithImports(parseResult.content).definitions,
                        currentLine).found) =>
        /\ lastRun.pubs = 1
        /\ bus.value = Null

\* a run on the import line of a document whose only definition is on
\* another line
RunOnImportLine ==
    /\ lastRun.phase = "completed"
    /\ currentDocument = "b"
    /\ text["b"] = "CK1"
    /\ currentLine = 1
    /\ parseResult.present
    /\ bus.value = Null

\* C25: on an executable-module document, a run for an export whose name is
\* absent from the loaded module, or whose value has no smiles, fires null,
\* not an error result.
MissingExportYieldsNull ==
    (Called("export", "absent") \/ Called("export", "nosmiles")) =>
        /\ lastRun.pubs = 1
        /\ bus.value = Null

\* a run resumed with a module whose export has no smiles
ExportWithoutSmiles ==
    /\ lastRun.phase = "resumed"
    /\ Called("export", "nosmiles")
    /\ bus.value = Null

\* C26: when loadWithImports throws in a run of the tracker on a declarative
\* document, the value fired is a result whose error is the caught message,
\* and the memoized resolution stays absent.
BuildFailureYieldsError ==
    Called("loadWithImports", "throw") =>
        /\ lastRun.pubs = 1
        /\ bus.value.kind = "result"
        /\ bus.value.line = currentLine
        /\ bus.value.error = loadWithImports(text[currentDocument]).message
        /\ ~parseResult.present

\* loadWithImports threw in a run on a non-blank line
BuildThrewOnTextLine ==
    /\ Called("loadWithImports", "throw")
    /\ TrackedLineHasText
    /\ bus.value.error = "ENOENT"

----------------------------------------------------------------------------
(* Properties of the classification of documents and of cursor events *)

\* an event of document d reaches the tracker: a cursor move, an edit, or
\* its editor becoming the active one
EventOf(d) ==
    \/ \E line \in 0..1 : DidChangeTextEditorSelection(d, line)
    \/ \E content \in ContentsOf(d) : DidChangeTextDocument(d, content)
    \/ \E line \in 0..1 : DidChangeActiveTextEditor(d, line)

\* C28: classification is total and exclusive: a document is declarative,
\* executable-module or unsupported; an event of an unsupported document
\* fires nothing and leaves the tracked document, the tracked line and the
\* memoized resolution unchanged; a run a step starts takes exactly one of
\* the two paths, the one of the kind of the document tracked then (line
\* 371).
ClassificationIsTotalAndExclusive ==
    [][/\ \A d \in Docs :
              /\ IsSupportedFile(d) <=>
                     (languageId(d) = "selfies" \/ EndsWithSmilesJs(fileName(d)))
              /\ (~IsSupportedFile(d) /\ EventOf(d)) =>
                     /\ lastRun'.pubs = 0
                     /\ bus' = bus
                     /\ UNCHANGED <<currentDocument, currentLine, parseResult>>
       /\ lastRun'.phase \in {"completed", "suspended"} =>
              /\ (\E i \in DOMAIN lastRun'.calls :
                     lastRun'.calls[i][1] \in {"statSync", "import"})
                     => EndsWithSmilesJs(fileName(currentDocument'))
              /\ (\E i \in DOMAIN lastRun'.calls :
                     lastRun'.calls[i][1] \in {"loadWithImports", "resolve", "decode",
                                               "getMolecularWeight", "getFormula"})
                     => (/\ languageId(currentDocument') = "selfies"
                         /\ ~EndsWithSmilesJs(fileName(currentDocument')))]_vars

\* the unsupported document is open and the last step started no run, while
\* a supported document is tracked and a result is on the bus
IdleWhileTracking ==
    /\ "n" \in openDocs
    /\ ~IsSupportedFile("n")
    /\ lastRun = NoRun
    /\ currentDocument # NoDoc
    /\ bus.value.kind = "result"

\* C30: a cursor event on the tracked line fires nothing and leaves the
\* tracker as it is; a cursor event on another line of the tracked document
\* makes that line the tracked line and starts exactly one run.
CursorEventRunsOncePerNewLine ==
    [][\A d \in Docs : \A line \in 0..1 :
           DidChangeTextEditorSelection(d, line) =>
               /\ line = currentLine =>
                      /\ lastRun'.phase = "none"
                      /\ lastRun'.pubs = 0
                      /\ bus' = bus
                      /\ UNCHANGED <<currentDocument, currentLine, parseResult, pending>>
               /\ (line # currentLine /\ d = currentDocument) =>
                      /\ currentLine' = line
                      /\ currentDocument' = currentDocument
                      /\ \/ lastRun'.phase = "completed" /\ lastRun'.pubs = 1
                                /\ pending' = pending
                         \/ lastRun'.phase = "suspended" /\ lastRun'.pubs = 0
                                /\ Len(pending') = Len(pending) + 1]_vars

\* a run on another line of the tracked document, served by the resolution
\* an earlier run built
MovedToOtherLine ==
    /\ lastRun.phase = "completed"
    /\ lastRun.pubs = 1
    /\ currentDocument = "b"
    /\ currentLine = 0
    /\ bus.value.kind = "result"
    /\ bus.value.line = 0
    /\ parseResult.present
    /\ lastRun.calls # <<>>
    /\ ~CalledAny("loadWithImports")

\* C27: no failure escapes as an uncaught fault; in particular, when the
\* preview panel is disposed while PreviewPanel.update awaits generateSVG,
\* update completes without an exception or a rejected promise.
NoUncaughtFault == ~posted.fault

\* C29: with selfies.autoOpenPreview enabled and no preview panel open, a
\* .smiles.js document becoming the active editor has the extension execute
\* selfies.showMolecule, the command that opens the panel.
AutoOpenForSmilesJs ==
    [][\A line \in 0..1 :
           ( /\ command = "none"
             /\ DidChangeActiveTextEditor("m", line)
             /\ activeTextEditor' = "m"
             /\ config.autoOpenPreview
             /\ previewPanel = "null" )
           => command' = "showMolecule"]_vars

\* the value the step published was handed to PreviewPanel.update: the
\* call is suspended on generateSVG, or it has posted the value
ForwardedToPanel ==
    \/ /\ updates' = Append(updates, [data |-> bus'.value, disposed |-> FALSE,
                                      superseded |-> FALSE])
       /\ posted' = posted
    \/ /\ posted' = [data |-> bus'.value, stale |-> FALSE, fault |-> FALSE,
                      disposed |-> FALSE]
       /\ Len(updates') = Len(updates)

\* C31: a published value causes no update of the preview panel when
\* selfies.previewOnCursorMove is false or no panel is open, and is
\* forwarded to the panel, null included, when the setting is true and a
\* panel is open.
ForwardingFollowsSetting ==
    [][lastRun'.pubs = 1 =>
           IF config.previewOnCursorMove /\ previewPanel' = "open"
           THEN ForwardedToPanel
           ELSE UNCHANGED <<updates, posted>>]_vars

\* a published null has been posted to the open panel
NullForwarded ==
    /\ lastRun.pubs = 1
    /\ bus.value = Null
    /\ previewPanel = "open"
    /\ config.previewOnCursorMove
    /\ posted.data = Null

\* C32: at most one preview panel is live at any time and the variable
\* previewPanel refers to a panel exactly while that panel is not disposed;
\* togglePreview disposes the panel when there is one and executes
\* showMolecule otherwise.
AtMostOnePanel ==
    /\ [](/\ webviewPanels <= 1
          /\ previewPanel = "open" <=> webviewPanels = 1)
    /\ [][TogglePreviewCommand =>
              IF previewPanel = "open"
              THEN previewPanel' = "null" /\ webviewPanels' = 0 /\ command' = "none"
              ELSE command' = "showMolecule" /\ webviewPanels' = webviewPanels]_vars

\* a second panel is open while an update of the first, disposed one is
\* still suspended
PanelOpenedAgain ==
    /\ previewPanel = "open"
    /\ webviewPanels = 1
    /\ \E i \in DOMAIN updates : updates[i].disposed

\* the tokens of the definition are of the two kinds the claim speaks of
ClaimedKindsOnly(definition) ==
    "tokens" \in DOMAIN definition =>
        \A i \in DOMAIN definition.tokens :
            definition.tokens[i].typeof = "string" \/ IsRepeatCall(definition.tokens[i])

\* the text the claim gives to one raw token
ClaimedTokenText(token) ==
    IF token.typeof = "string" THEN token.value
    ELSE <<"r", "e", "p", "e", "a", "t", "(">> \o token.pattern \o <<",", " ">>
         \o Digits(token.count) \o <<")">>

\* the texts of the first n tokens, joined in order with nothing in between
RECURSIVE ClaimedExpression(_, _)
ClaimedExpression(tokens, n) ==
    IF n = 0 THEN <<>>
    ELSE ClaimedExpression(tokens, n - 1) \o ClaimedTokenText(tokens[n])

\* C33: the expression of a declarative result is the concatenation, in
\* order and without separators, of the definition's raw tokens, a string
\* token as itself and a REPEAT_CALL token as repeat(<pattern>, <count>),
\* and is empty when the definition has no tokens field.
ExpressionIsTokenText ==
    (lastRun.pubs = 1 /\ CalledAny("resolve")
                      /\ ClaimedKindsOnly(TrackedDefinition)) =>
        /\ bus.value.kind = "result"
        /\ bus.value.name = TrackedDefinition.name
        /\ bus.value.expression =
               (IF "tokens" \in DOMAIN TrackedDefinition
                THEN ClaimedExpression(TrackedDefinition.tokens,
                                       Len(TrackedDefinition.tokens))
                ELSE <<>>)

\* [B] = [A]repeat([C], 2) was resolved and decoded
RepeatExpressionPublished ==
    /\ lastRun.pubs = 1
    /\ Called("resolve", "ok")
    /\ Called("decode", "ok")
    /\ bus.value.name = <<"B">>
    /\ bus.value.error = "null"
    /\ bus.value.expression =
           <<"[", "A", "]", "r", "e", "p", "e", "a", "t", "(", "[", "C", "]", ",", " ", "2", ")">>

\* a result built by the executable-module path (lines 417-426)
IsModuleResult(value) ==
    /\ value.kind = "result"
    /\ "selfies" \in DOMAIN value
    /\ value.selfies = "null"
    /\ value.smiles # "null"

\* C34: in every result published by the executable-module path, name,
\* expression and line describe the same source line of the document: the
\* line field is the line on which the export name was found, also when the
\* cursor moved or the document changed while the module load was suspended.
ModuleResultDescribesOneLine ==
    IsModuleResult(bus.value) =>
        \E d \in SmilesJsDocs : \E content \in ContentsOf(d) :
            LET lines == LinesOfContent(content)
            IN /\ bus.value.line + 1 \in DOMAIN lines
               /\ Trim(lines[bus.value.line + 1]) = bus.value.expression
               /\ FindExportAtLine(lines, bus.value.line) =
                      [found |-> TRUE, name |-> bus.value.name]

\* C35: a cursor-moved event from an editor whose document is supported but
\* is not the tracked document causes no resolution of the tracked document
\* at the other document's line number: the tracked line stays a cursor
\* line of the tracked document.
ForeignCursorEventIsIgnored ==
    [][\A d \in Docs : \A line \in 0..1 :
           ( /\ DidChangeTextEditorSelection(d, line)
             /\ IsSupportedFile(d)
             /\ currentDocument # NoDoc
             /\ d # currentDocument )
           => /\ currentLine' = currentLine
              /\ lastRun'.phase = "none"]_vars

\* C36: every value published for an executable-module document is null or
\* a result with a null error and a null encoded form; a failure to load
\* the module (file missing on disk, module throwing) yields null.
ModuleValuesAreNullOrClean ==
    (lastRun.pubs = 1 /\ currentDocument \in SmilesJsDocs) =>
        \/ bus.value = Null
        \/ /\ bus.value.kind = "result"
           /\ bus.value.error = "null"
           /\ "selfies" \in DOMAIN bus.value
           /\ bus.value.selfies = "null"

\* C37: the preview panel receives the update messages in the order the
\* results were published: PreviewPanel.update never posts the message of
\* an earlier result after the message of a later one.
MessagesInPublicationOrder == posted.fault \/ posted.disposed \/ ~posted.stale

\* C38: invoking showMolecule on a declarative editor delivers the
\* resolution of the current line to the revealed panel, whatever the value
\* of selfies.previewOnCursorMove.
ShowMoleculeDelivers ==
    [][( /\ ShowMoleculeCommand
         /\ activeTextEditor # NoDoc
         /\ languageId(activeTextEditor) = "selfies" )
       => /\ previewPanel' = "open"
          /\ lastRun'.pubs = 1
          /\ ForwardedToPanel]_vars

\* C39: no update message is posted to a preview panel after that panel has
\* been disposed, however togglePreview and the closing of the panel
\* interleave with the suspended calls of PreviewPanel.update.
NoPostAfterDispose == ~posted.disposed

\* an update suspended on generateSVG resumed after its panel was disposed:
\* the access to the webview threw and nothing was posted
PostRefusedAfterDispose ==
    /\ posted.fault
    /\ ~posted.disposed
    /\ previewPanel = "null"
    /\ webviewPanels = 0

\* C40: the tracked document is absent or a supported document, declarative
\* or executable-module, and the memoized resolution is present only while
\* the tracked document is declarative.
TrackedDocumentIsSupported ==
    /\ currentDocument = NoDoc
           \/ languageId(currentDocument) = "selfies"
           \/ currentDocument \in SmilesJsDocs
    /\ parseResult.present =>
           /\ currentDocument # NoDoc
           /\ languageId(currentDocument) = "selfies"
           /\ currentDocument \notin SmilesJsDocs
           /\ parseResult.doc = currentDocument

\* the tracker has just switched from the declarative document, whose
\* resolution it had memoized and published, to the executable-module one
SwitchedAwayFromMemo ==
    /\ currentDocument = "m"
    /\ lastRun.switch # "no"
    /\ lastRun.phase = "suspended"
    /\ ~parseResult.present
    /\ bus.value.kind = "result"
    /\ "selfies" \in DOMAIN bus.value
    /\ bus.value.selfies = "SELFIES"

====
